---- MODULE Spec2Model ----
(***************************************************************************)
(* Verification model of the yuzu kernel object substrate:                 *)
(*   - KAutoObject reference counting (Open / Close compare-exchange       *)
(*     loops), src/core/hle/kernel/k_auto_object.h                         *)
(*   - KScopedAutoObject, the scope-owning wrapper                         *)
(*   - KAutoObjectWithListContainer and its ListAccessor                   *)
(*   - the per-process handle table                                        *)
(***************************************************************************)
EXTENDS Integers, Sequences, FiniteSets, TLC

(***************************************************************************)
(* Bounds of the model.                                                    *)
(***************************************************************************)
NumThreads == 3
NumObjects == 2
MaxOps == 2
NumWrappers == 2
MaxBase == 1
MaxLeaked == 1
TableSize == 2
MaxHandles == 3
MaxSessions == 2
MaxSignals == 2
TotalGapSize == 3
MaxObjectWords == 1
NumPages == 5
MaxSize == 5
MaxCalls == 2
MaxWrites == 5
NumMacros == 2
NumConstBuffers == 2
MaxQueueObjects == 2
NumSlots == 1
MaxComposes == 2
MaxSyncs == 2
NumSyncThreads == 2

Threads == 1..NumThreads
Objects == 1..NumObjects
\* The object the concurrent Open / Close calls contend for.
RaceObjects == {1}
Wrappers == 1..NumWrappers

\* std::atomic<u32> m_ref_count: a u32 is kept as its 32-bit pattern, read as a
\* two's complement integer (0xFFFFFFFF is -1), and compared unsigned.
IntMax == 2147483647
IntMin == (-IntMax) - 1

NoThread == 0
nullptr == 0

(***************************************************************************)
(* State.                                                                  *)
(***************************************************************************)
VARIABLES
    m_ref_count,    \* [Objects -> u32]            KAutoObject::m_ref_count
    created,        \* [Objects -> BOOLEAN]        KAutoObject::Create has run
    destroyCount,   \* [Objects -> Nat]            number of Destroy() calls
    zeroBy,         \* [Objects -> thread or 0]    thread whose exchange stored 0
    destroyBy,      \* [Objects -> thread or 0]    thread that called Destroy()
    refsTaken,      \* [Objects -> Nat]            Create + successful Opens
    closesDone,     \* [Objects -> Nat]            Close calls that returned
    aborted,        \* BOOLEAN                     an ASSERT failed (fatal)
    pc,             \* [Threads -> position in Open / Close]
    self,           \* [Threads -> object the call runs on (this), or nullptr]
    cur_ref_count,  \* [Threads -> u32]            the local of Open / Close
    ret,            \* [Threads -> result of the thread's last Open]
    nops,           \* [Threads -> Nat]            calls started by the thread
    m_obj,          \* [Wrappers -> object or nullptr]  KScopedAutoObject::m_obj
    live,           \* [Wrappers -> BOOLEAN]       the wrapper is constructed
    wtype,          \* [Wrappers -> class]         the wrapper's template argument T
    baseCount,      \* [Objects -> u32]            references held by the object's owners
    leaked,         \* [Objects -> Nat]            pointers given out by ReleasePointerUnsafe
    last,           \* the last wrapper or handle-table operation, with its arguments
    m_lock,         \* thread that holds KAutoObjectWithListContainer::m_lock, or 0
    m_object_list,  \* set of objects in the container's tree, ordered by GetId()
    iter,           \* [Threads -> list iterator of the thread's ListAccessor; 0 = end()]
    h_objects,      \* [1..MaxHandles -> object bound to the handle, or nullptr]
    next_handle,    \* the next fresh handle of the handle table
    num_sessions,   \* KClientPort::num_sessions (atomic s32)
    peak_sessions,  \* KClientPort::peak_sessions (atomic s32)
    max_sessions,   \* KClientPort::max_sessions
    server_closed,  \* BOOLEAN   OnServerClosed has been called
    live_sessions,  \* Nat       sessions created and not yet finalized
    max_seen,       \* Nat       the largest value num_sessions has had
    cs_cur,         \* [Threads -> s32]  CreateSession: the value loaded from num_sessions
    cs_new,         \* [Threads -> s32]  CreateSession: the value it stored
    is_set,         \* Common::Event::is_set
    ev_mutex,       \* Common::Event::mutex: the thread holding it, or NoThread
    ev_notified,    \* the threads blocked in condvar that notify_one has picked
    ev_returns,     \* Seq(Nat)  per Set that set the flag: waits that returned for it
    slab_pc,        \* InitializeSlabHeaps: the loop it is in
    slab_i,         \* InitializeSlabHeaps: the loop index i
    slab_types,     \* InitializeSlabHeaps: slab_types[]
    slab_gaps,      \* InitializeSlabHeaps: slab_gaps[]
    address,        \* InitializeSlabHeaps: address
    slab_region,    \* memory_layout.GetSlabRegionAddress()
    slab_alignof,   \* [slab type -> alignof(T)]
    slab_sizeof,    \* [slab type -> sizeof(T)]
    slab_pad,       \* Seq  the padding added before each slab placed so far
    slab_start,     \* Seq  the start of each slab placed so far
    slab_end,       \* Seq  the end (exclusive) of each slab placed so far
    page_table,     \* MemoryManager::page_table: [block -> [index -> slot]]
    mapped_regions, \* MemoryManager::mapped_regions
    mm_ranges,      \* Seq  the calls made so far and the bases they returned
    mm_failed,      \* BOOLEAN  an ASSERT of the MemoryManager has failed
    mm_translated,  \* {[gpu_addr, slot, asserted, result]} when the last call was GpuToCpuAddress
    regs,           \* Maxwell3D::regs.reg_array: [register -> value]
    executing_macro, \* Maxwell3D::executing_macro: the entry method, or 0
    macro_params,   \* Maxwell3D::macro_params
    uploaded_macros, \* Maxwell3D::uploaded_macros: [method -> code]
    shader_stages,  \* Maxwell3D::state.shader_stages: [stage -> [index -> const buffer]]
    memory,         \* guest memory: [CPU address -> the value Memory::Write32 stored]
    m3d_failed,     \* "no", or the fatal check that ended the run
    m3d_trace,      \* Seq  what the last WriteReg did, in the order it did it
    m3d_pending,    \* Seq  the write that began the last macro call and the writes made until its end
    m3d_writes,     \* the number of WriteReg calls made so far
    m3d_queries,    \* Seq  the values the Write-mode query completions have written
    m3d_data,       \* [start, values]: cb_pos when the const buffer was last set up, and the
                    \* values the cb_data writes have stored since
    displays,       \* NVFlinger::displays: [display id -> the layers of the display]
    buffer_queues,  \* NVFlinger::buffer_queues: Seq of BufferQueue objects
    next_layer_id,  \* NVFlinger::next_layer_id
    next_buffer_queue_id, \* NVFlinger::next_buffer_queue_id
    nvf_heap,       \* Seq  the BufferQueue objects made so far: [id, layer_id, queue]
    nvf_returned,   \* Seq  the GetBufferQueue calls: [id, queue object returned]
    nvf_flips,      \* Seq  the buffers Compose has sent to the display
    nvf_failed,     \* BOOLEAN  an ASSERT of NVFlinger has failed
    b_count,        \* Barrier::count
    waiting,        \* Barrier::waiting
    generation,     \* Barrier::generation
    b_mutex,        \* Barrier::mutex: the thread holding it, or NoThread
    current_generation, \* [Threads -> the generation Sync() read on entry]
    b_calls,        \* [Threads -> the number of Sync() calls the thread has made]
    b_returns,      \* [Threads -> the number of Sync() calls that have returned]
    b_arrived,      \* [generation -> the number of threads that have called Sync() in it]
    cs_result       \* [Threads -> the results returned by the thread's last CreateSession]

refVars == <<m_ref_count, created, destroyCount, zeroBy, destroyBy, refsTaken,
             closesDone, aborted>>
thrVars == <<pc, self, cur_ref_count, ret, nops>>
scopedVars == <<m_obj, live, wtype, baseCount, leaked, last>>

\* What the steps of Open / Close leave alone, and what the wrapper operations do.
contVars == <<m_lock, m_object_list, iter>>
tableVars == <<h_objects, next_handle>>
portVars == <<num_sessions, peak_sessions, max_sessions, server_closed, live_sessions,
              max_seen, cs_cur, cs_new, cs_result>>

\* The state of the components added after the kernel object substrate.
eventVars == <<is_set, ev_mutex, ev_notified, ev_returns>>
slabVars == <<slab_pc, slab_i, slab_types, slab_gaps, address, slab_region, slab_alignof,
              slab_sizeof, slab_pad, slab_start, slab_end>>
gpuVars == <<page_table, mapped_regions, mm_ranges, mm_failed, mm_translated>>
maxwellVars == <<regs, executing_macro, macro_params, uploaded_macros, shader_stages, memory,
                 m3d_failed, m3d_trace, m3d_pending, m3d_writes, m3d_data, m3d_queries>>
flingerVars == <<displays, buffer_queues, next_layer_id, next_buffer_queue_id, nvf_heap,
                 nvf_returned, nvf_flips, nvf_failed>>
barrierVars == <<b_count, waiting, generation, b_mutex, current_generation, b_calls,
                 b_returns, b_arrived>>
lateVars == <<flingerVars, barrierVars>>
restVars == <<portVars, eventVars, slabVars, gpuVars, maxwellVars, lateVars>>
\* The kernel object substrate without the threads' positions.
kobjVars == <<refVars, scopedVars, contVars, tableVars, self, cur_ref_count, ret, nops>>

notRefVars == <<scopedVars, contVars, tableVars, restVars>>
notScopedVars == <<thrVars, contVars, tableVars, restVars>>
notContVars == <<refVars, scopedVars, tableVars, self, cur_ref_count, ret, nops, restVars>>
notTableVars == <<thrVars, contVars, m_obj, live, wtype, leaked, restVars>>
notPortVars == <<kobjVars, eventVars, slabVars, gpuVars, maxwellVars, lateVars>>
notEventVars == <<kobjVars, portVars, slabVars, gpuVars, maxwellVars, lateVars>>
notSlabVars == <<kobjVars, pc, portVars, eventVars, gpuVars, maxwellVars, lateVars>>
notGpuVars == <<kobjVars, pc, portVars, eventVars, slabVars, maxwellVars, lateVars>>
notMaxwellVars == <<kobjVars, pc, portVars, eventVars, slabVars, gpuVars, lateVars>>
notFlingerVars == <<kobjVars, pc, portVars, eventVars, slabVars, gpuVars, maxwellVars,
                    barrierVars>>
notBarrierVars == <<kobjVars, portVars, eventVars, slabVars, gpuVars, maxwellVars,
                    flingerVars>>

(***************************************************************************)
(* KAutoObject: the decisions of Open and Close on the loaded value.       *)
(***************************************************************************)
Inc_Stuck(c) == c
Inc(c) == IF c = IntMax THEN IntMin ELSE c + 1
Dec(c) == IF c = IntMin THEN IntMax ELSE c - 1
ULess(a, b) == IF (a >= 0) = (b >= 0) THEN a < b ELSE b < 0

\* Open: "if (cur_ref_count == 0) return false;"
OpenMayIncrement_Always(cur) == TRUE
OpenMayIncrement(cur) == cur # 0

\* Open: ASSERT(cur_ref_count < cur_ref_count + 1)
OpenAssert(cur) == ULess(cur, Inc(cur))

\* Close: ASSERT(cur_ref_count > 0)
CloseAssert_Off(cur) == TRUE
CloseAssert(cur) == ULess(0, cur)

\* Close: "if (cur_ref_count - 1 == 0) this->Destroy();"
CloseHitsZero_Early(cur) == Dec(cur) \in {0, 1}
CloseHitsZero(cur) == Dec(cur) = 0

\* compare_exchange_weak(expected, desired): stores desired only when the value
\* held equals expected; otherwise expected is reloaded with the value held.
\* (A spurious failure reloads the same value and repeats the pass: it leaves
\* the state as it is, a stuttering step.)
CompareExchange(held, expected) == held = expected

\* Open: m_ref_count.compare_exchange_weak(cur_ref_count, cur_ref_count + 1)
OpenExchange_Blind(o, cur) == TRUE
OpenExchange(o, cur) == CompareExchange(m_ref_count[o], cur)

\* Close: m_ref_count.compare_exchange_weak(cur_ref_count, cur_ref_count - 1)
CloseExchange_Blind(o, cur) == TRUE
CloseExchange(o, cur) == CompareExchange(m_ref_count[o], cur)

(***************************************************************************)
(* Initial state of the reference-count races: every object has just been  *)
(* constructed (m_ref_count(0)) and no call is in progress.                *)
(***************************************************************************)
InitObjectsFresh ==
    /\ m_ref_count = [o \in Objects |-> 0]
    /\ created = [o \in Objects |-> FALSE]
    /\ destroyCount = [o \in Objects |-> 0]
    /\ zeroBy = [o \in Objects |-> NoThread]
    /\ destroyBy = [o \in Objects |-> NoThread]
    /\ refsTaken = [o \in Objects |-> 0]
    /\ closesDone = [o \in Objects |-> 0]
    /\ aborted = FALSE

InitThreads ==
    /\ pc = [t \in Threads |-> "idle"]
    /\ self = [t \in Threads |-> nullptr]
    /\ cur_ref_count = [t \in Threads |-> 0]
    /\ ret = [t \in Threads |-> "none"]
    /\ nops = [t \in Threads |-> 0]

\* KAutoObject::Create(ptr): installs the first reference.
Create(t, o) ==
    /\ UNCHANGED notRefVars
    /\ ~aborted /\ pc[t] = "idle" /\ ~created[o]
    /\ created' = [created EXCEPT ![o] = TRUE]
    /\ m_ref_count' = [m_ref_count EXCEPT ![o] = 1]
    /\ refsTaken' = [refsTaken EXCEPT ![o] = 1]
    /\ UNCHANGED <<destroyCount, zeroBy, destroyBy, closesDone, aborted>>
    /\ UNCHANGED thrVars

\* Open, first statement: cur_ref_count = m_ref_count.load(acquire)
OpenLoad(t, o) ==
    /\ UNCHANGED notRefVars
    /\ ~aborted /\ pc[t] = "idle" /\ nops[t] < MaxOps
    /\ pc' = [pc EXCEPT ![t] = "open_loop"]
    /\ self' = [self EXCEPT ![t] = o]
    /\ cur_ref_count' = [cur_ref_count EXCEPT ![t] = m_ref_count[o]]
    /\ nops' = [nops EXCEPT ![t] = @ + 1]
    /\ ret' = [ret EXCEPT ![t] = "none"]
    /\ UNCHANGED refVars

\* Open, one pass of the do/while body and its compare_exchange_weak.
OpenLoop(t) ==
    /\ UNCHANGED notRefVars
    /\ ~aborted /\ pc[t] = "open_loop"
    /\ LET o == self[t]
           cur == cur_ref_count[t]
       IN IF ~OpenMayIncrement(cur)
          THEN \* return false
               /\ pc' = [pc EXCEPT ![t] = "idle"]
               /\ ret' = [ret EXCEPT ![t] = "false"]
               /\ cur_ref_count' = [cur_ref_count EXCEPT ![t] = 0]
               /\ UNCHANGED <<refVars, self, nops>>
          ELSE IF ~OpenAssert(cur)
          THEN /\ aborted' = TRUE
               /\ pc' = [pc EXCEPT ![t] = "assert_failed"]
               /\ UNCHANGED <<m_ref_count, created, destroyCount, zeroBy, destroyBy,
                              refsTaken, closesDone, self, cur_ref_count, ret, nops>>
          ELSE IF OpenExchange(o, cur)
          THEN \* exchange succeeded: return true
               /\ m_ref_count' = [m_ref_count EXCEPT ![o] = Inc(cur)]
               /\ refsTaken' = [refsTaken EXCEPT ![o] = @ + 1]
               /\ pc' = [pc EXCEPT ![t] = "idle"]
               /\ ret' = [ret EXCEPT ![t] = "true"]
               /\ cur_ref_count' = [cur_ref_count EXCEPT ![t] = 0]
               /\ UNCHANGED <<created, destroyCount, zeroBy, destroyBy, closesDone,
                              aborted, self, nops>>
          ELSE \* exchange failed: cur_ref_count is reloaded, loop again
               /\ cur_ref_count' = [cur_ref_count EXCEPT ![t] = m_ref_count[o]]
               /\ UNCHANGED <<refVars, pc, self, ret, nops>>

\* Close, first statement: cur_ref_count = m_ref_count.load(acquire)
CloseLoad(t, o) ==
    /\ UNCHANGED notRefVars
    /\ ~aborted /\ pc[t] = "idle" /\ nops[t] < MaxOps
    /\ pc' = [pc EXCEPT ![t] = "close_loop"]
    /\ self' = [self EXCEPT ![t] = o]
    /\ cur_ref_count' = [cur_ref_count EXCEPT ![t] = m_ref_count[o]]
    /\ nops' = [nops EXCEPT ![t] = @ + 1]
    /\ ret' = [ret EXCEPT ![t] = "none"]
    /\ UNCHANGED refVars

\* Close, one pass of the do/while body and its compare_exchange_weak.
CloseLoop(t) ==
    /\ UNCHANGED notRefVars
    /\ ~aborted /\ pc[t] = "close_loop"
    /\ LET o == self[t]
           cur == cur_ref_count[t]
       IN IF ~CloseAssert(cur)
          THEN /\ aborted' = TRUE
               /\ pc' = [pc EXCEPT ![t] = "assert_failed"]
               /\ UNCHANGED <<m_ref_count, created, destroyCount, zeroBy, destroyBy,
                              refsTaken, closesDone, self, cur_ref_count, ret, nops>>
          ELSE IF CloseExchange(o, cur)
          THEN /\ m_ref_count' = [m_ref_count EXCEPT ![o] = Dec(cur)]
               /\ zeroBy' = [zeroBy EXCEPT ![o] = IF Dec(cur) = 0 THEN t ELSE @]
               /\ pc' = [pc EXCEPT ![t] = "close_tail"]
               /\ UNCHANGED <<created, destroyCount, destroyBy, refsTaken, closesDone,
                              aborted, self, cur_ref_count, ret, nops>>
          ELSE /\ cur_ref_count' = [cur_ref_count EXCEPT ![t] = m_ref_count[o]]
               /\ UNCHANGED <<refVars, pc, self, ret, nops>>

\* Close, after the loop: "if (cur_ref_count - 1 == 0) this->Destroy();"
CloseTail(t) ==
    /\ UNCHANGED notRefVars
    /\ ~aborted /\ pc[t] = "close_tail"
    /\ LET o == self[t]
           cur == cur_ref_count[t]
       IN /\ IF CloseHitsZero(cur)
             THEN /\ destroyCount' = [destroyCount EXCEPT ![o] = @ + 1]
                  /\ destroyBy' = [destroyBy EXCEPT ![o] = t]
             ELSE UNCHANGED <<destroyCount, destroyBy>>
          /\ closesDone' = [closesDone EXCEPT ![o] = @ + 1]
          /\ pc' = [pc EXCEPT ![t] = "idle"]
          /\ cur_ref_count' = [cur_ref_count EXCEPT ![t] = 0]
          /\ UNCHANGED <<m_ref_count, created, zeroBy, refsTaken, aborted, self, ret,
                         nops>>

vars == <<refVars, thrVars, scopedVars, contVars, tableVars, restVars>>

\* No KScopedAutoObject exists.
InitNoWrappers ==
    /\ m_obj = [w \in Wrappers |-> nullptr]
    /\ live = [w \in Wrappers |-> FALSE]
    /\ wtype = [w \in Wrappers |-> "none"]
    /\ baseCount = [o \in Objects |-> 0]
    /\ leaked = [o \in Objects |-> 0]
    /\ last = [op |-> "none"]

\* KAutoObjectWithListContainer(kernel): m_lock(kernel), m_object_list()
InitContainer ==
    /\ m_lock = NoThread
    /\ m_object_list = {}
    /\ iter = [t \in Threads |-> 0]

\* An empty handle table.
InitTable ==
    /\ h_objects = [h \in 1..MaxHandles |-> nullptr]
    /\ next_handle = 1

\* KClientPort before Initialize: num_sessions{}, peak_sessions{}, max_sessions{}.
InitPortFields ==
    /\ num_sessions = 0
    /\ peak_sessions = 0
    /\ server_closed = FALSE
    /\ live_sessions = 0
    /\ max_seen = 0
    /\ cs_cur = [t \in Threads |-> 0]
    /\ cs_new = [t \in Threads |-> 0]
    /\ cs_result = [t \in Threads |-> {}]

InitNoPort == InitPortFields /\ max_sessions = 0

\* Event() : is_set(false)
InitEvent ==
    /\ is_set = FALSE
    /\ ev_mutex = NoThread
    /\ ev_notified = {}
    /\ ev_returns = <<>>

\* InitializeSlabHeaps has not been called.
InitNoSlab ==
    /\ slab_pc = "done"
    /\ slab_i = 0
    /\ slab_types = <<>>
    /\ slab_gaps = <<>>
    /\ address = 0
    /\ slab_region = 0
    /\ slab_alignof = <<>>
    /\ slab_sizeof = <<>>
    /\ slab_pad = <<>>
    /\ slab_start = <<>>
    /\ slab_end = <<>>

\* enum class PageStatus : u64, as 64-bit two's-complement bit patterns.
Unmapped == -1
Allocated == -2

PAGE_BITS == 1
PAGE_SIZE == 2 ^ PAGE_BITS
PAGE_MASK == PAGE_SIZE - 1
PAGE_TABLE_BITS == 2
PAGE_TABLE_SIZE == 2 ^ PAGE_TABLE_BITS
PAGE_TABLE_MASK == PAGE_TABLE_SIZE - 1
PAGE_BLOCK_BITS == 2
PAGE_BLOCK_SIZE == 2 ^ PAGE_BLOCK_BITS
PAGE_BLOCK_MASK == PAGE_BLOCK_SIZE - 1
MAX_ADDRESS == NumPages * PAGE_SIZE

\* A fresh MemoryManager: every block PageSlot creates starts all Unmapped.
InitGpu ==
    /\ page_table = [b \in 0..PAGE_TABLE_MASK |-> [i \in 0..PAGE_BLOCK_MASK |-> Unmapped]]
    /\ mapped_regions = <<>>
    /\ mm_ranges = <<>>
    /\ mm_failed = FALSE
    /\ mm_translated = {}

\* The registers of the engine the model keeps, in the order of their indices. Of the
\* sixteen cb_data registers the first two are kept.
RegNames == <<"code_address_high", "code_address_low", "vertex_buffer_count",
              "vertex_end_gl", "index_array_count", "query_address_high",
              "query_address_low", "query_sequence", "query_get", "cb_size",
              "cb_address_high", "cb_address_low", "cb_pos", "cb_data0", "cb_data1",
              "cb_bind0", "cb_bind1", "cb_bind2", "cb_bind3", "cb_bind4", "unk">>

\* MAXWELL3D_REG_INDEX(field_name)
MAXWELL3D_REG_INDEX(field_name) ==
    (CHOOSE i \in 1..Len(RegNames) : RegNames[i] = field_name) - 1

\* The registers below the macro registers, and the registers of the macros.
LowRegs == 0..(Len(RegNames) - 1)
MacroRegistersStart == 3584
MaxShaderStage == 5
NUM_REGS == MacroRegistersStart + (2 * NumMacros)

\* Regs::ShaderStage and the const buffers of one stage.
ShaderStages == 0..(MaxShaderStage - 1)
ConstBufferSlots == 0..(NumConstBuffers - 1)

\* A Maxwell3D after construction: zeroed registers, no macro, nothing bound.
InitEngine ==
    /\ regs = [r \in LowRegs |-> 0]
    /\ executing_macro = 0
    /\ macro_params = <<>>
    /\ uploaded_macros = [m \in {} |-> <<>>]
    /\ shader_stages = [stage \in ShaderStages |->
                          [index \in ConstBufferSlots |->
                             [enabled |-> FALSE, index |-> 0, address |-> 0, size |-> 0]]]
    /\ m3d_failed = "no"

InitNoMaxwell ==
    /\ InitEngine
    /\ memory = [a \in {} |-> 0]
    /\ m3d_trace = <<>>
    /\ m3d_pending = <<>>
    /\ m3d_writes = 0
    /\ m3d_data = [start |-> 0, values |-> <<>>]
    /\ m3d_queries = <<>>

\* The displays of an NVFlinger, in the order the constructor adds them: Default,
\* External, Edid, Internal.
DisplayNames == <<"Default", "External", "Edid", "Internal">>
DisplayIds == 0..(Len(DisplayNames) - 1)
FirstId == 1

\* An NVFlinger after construction.
InitFlinger ==
    /\ displays = [display_id \in DisplayIds |-> <<>>]
    /\ buffer_queues = <<>>
    /\ next_layer_id = FirstId
    /\ next_buffer_queue_id = FirstId
    /\ nvf_heap = <<>>
    /\ nvf_returned = <<>>
    /\ nvf_flips = <<>>
    /\ nvf_failed = FALSE

\* Barrier(count_): waiting(0), generation(0).
InitBarrierFields ==
    /\ waiting = 0
    /\ generation = 0
    /\ b_mutex = NoThread
    /\ current_generation = [t \in Threads |-> 0]
    /\ b_calls = [t \in Threads |-> 0]
    /\ b_returns = [t \in Threads |-> 0]
    /\ b_arrived = <<>>

InitLate == InitFlinger /\ InitBarrierFields /\ b_count = 0

\* The initial state of the components added after the kernel object substrate.
InitRest == InitNoPort /\ InitEvent /\ InitNoSlab /\ InitGpu /\ InitNoMaxwell /\ InitLate

\* The kernel object substrate with nothing in it.
InitKobj ==
    InitObjectsFresh /\ InitThreads /\ InitNoWrappers /\ InitContainer /\ InitTable

InitRef ==
    InitObjectsFresh /\ InitThreads /\ InitNoWrappers /\ InitContainer /\ InitTable
    /\ InitRest

NextRef ==
    \E t \in Threads :
        \/ \E o \in RaceObjects : Create(t, o)
        \/ \E o \in RaceObjects : OpenLoad(t, o)
        \/ OpenLoop(t)
        \/ \E o \in RaceObjects : CloseLoad(t, o)
        \/ CloseLoop(t)
        \/ CloseTail(t)

SpecRef == InitRef /\ [][NextRef]_vars

(***************************************************************************)
(* Open and Close run to completion by one caller with no other call in    *)
(* between, on a heap h = [cnt, dc, ab]: the counts, the Destroy calls and  *)
(* whether an ASSERT has failed.                                           *)
(***************************************************************************)
Heap == [cnt |-> m_ref_count, dc |-> destroyCount, ab |-> aborted]

DoOpen(h, o) ==
    IF h.ab THEN h
    ELSE LET cur == h.cnt[o]
         IN IF ~OpenMayIncrement(cur) THEN h
            ELSE IF ~OpenAssert(cur) THEN [h EXCEPT !.ab = TRUE]
            ELSE [h EXCEPT !.cnt[o] = Inc(cur)]

DoClose(h, o) ==
    IF h.ab THEN h
    ELSE LET cur == h.cnt[o]
         IN IF ~CloseAssert(cur) THEN [h EXCEPT !.ab = TRUE]
            ELSE [h EXCEPT !.cnt[o] = Dec(cur),
                           !.dc[o] = IF CloseHitsZero(cur) THEN @ + 1 ELSE @]

\* The heap after the operation becomes the state.
SetHeap(h) ==
    /\ m_ref_count' = h.cnt
    /\ destroyCount' = h.dc
    /\ aborted' = h.ab
    /\ UNCHANGED <<created, zeroBy, destroyBy, refsTaken, closesDone>>

(***************************************************************************)
(* Class tokens and DynamicCast.                                           *)
(***************************************************************************)
Classes == {"KAutoObject", "KClientPort", "KTransferMemory"}

\* The bits of a class's token: those of its base classes and its own.
ClassToken(c) ==
    CASE c = "KAutoObject" -> {}
      [] c = "KClientPort" -> {0, 1}
      [] c = "KTransferMemory" -> {2}

\* The dynamic class of an object (GetTypeObj()).
GetTypeObj(o) ==
    CASE o % 3 = 1 -> "KTransferMemory"
      [] o % 3 = 2 -> "KClientPort"
      [] o % 3 = 0 -> "KAutoObject"

\* TypeObj::IsDerivedFrom: (token | rhs.token) == token
IsDerivedFrom(c, rhs) == (ClassToken(c) \cup ClassToken(rhs)) = ClassToken(c)

\* KAutoObject::DynamicCast<T*>() on object o
DynamicCast_Unchecked(o, T) == o
DynamicCast(o, T) == IF IsDerivedFrom(GetTypeObj(o), T) THEN o ELSE nullptr

\* The pointers a T* can hold: nullptr and the objects of a class derived from T.
PointersOf(T) == {nullptr} \cup {o \in Objects : IsDerivedFrom(GetTypeObj(o), T)}

(***************************************************************************)
(* KScopedAutoObject<T>.                                                   *)
(***************************************************************************)
\* KScopedAutoObject(T* o): "if (m_obj != nullptr) m_obj->Open();"
ScopedCtor_NoOpen(h, o) == h
ScopedCtor(h, o) == IF o # nullptr THEN DoOpen(h, o) ELSE h

\* ~KScopedAutoObject(): "if (m_obj != nullptr) m_obj->Close();"
ScopedDtor_NoClose(h, o) == h
ScopedDtor(h, o) == IF o # nullptr THEN DoClose(h, o) ELSE h

\* Initial state of the wrapper operations: objects that their owners hold
\* baseCount references to (0: constructed and never opened), no wrapper.
InitScoped ==
    /\ baseCount \in [Objects -> 0..MaxBase]
    /\ m_ref_count = baseCount
    /\ created = [o \in Objects |-> baseCount[o] > 0]
    /\ refsTaken = baseCount
    /\ destroyCount = [o \in Objects |-> 0]
    /\ zeroBy = [o \in Objects |-> NoThread]
    /\ destroyBy = [o \in Objects |-> NoThread]
    /\ closesDone = [o \in Objects |-> 0]
    /\ aborted = FALSE
    /\ InitThreads
    /\ m_obj = [w \in Wrappers |-> nullptr]
    /\ live = [w \in Wrappers |-> FALSE]
    /\ wtype = [w \in Wrappers |-> "none"]
    /\ leaked = [o \in Objects |-> 0]
    /\ last = [op |-> "none"]
    /\ InitContainer
    /\ InitTable
    /\ InitRest

\* KScopedAutoObject<T> w(o);   (o = nullptr: also the default constructor)
Construct(w, T, o) ==
    /\ UNCHANGED notScopedVars
    /\ ~aborted /\ ~live[w] /\ o \in PointersOf(T)
    /\ LET h == ScopedCtor(Heap, o)
       IN /\ SetHeap(h)
          /\ live' = [live EXCEPT ![w] = TRUE]
          /\ wtype' = [wtype EXCEPT ![w] = T]
          /\ m_obj' = [m_obj EXCEPT ![w] = o]
          /\ last' = [op |-> "Construct", w |-> w, o |-> o]
          /\ UNCHANGED <<baseCount, leaked>>

\* w goes out of scope: ~KScopedAutoObject()
Destruct(w) ==
    /\ UNCHANGED notScopedVars
    /\ ~aborted /\ live[w]
    /\ LET h == ScopedDtor(Heap, m_obj[w])
       IN /\ SetHeap(h)
          /\ last' = [op |-> "Destruct", w |-> w, o |-> m_obj[w]]
          /\ IF h.ab
             THEN UNCHANGED <<live, wtype, m_obj>>
             ELSE /\ live' = [live EXCEPT ![w] = FALSE]
                  /\ wtype' = [wtype EXCEPT ![w] = "none"]
                  /\ m_obj' = [m_obj EXCEPT ![w] = nullptr]
          /\ UNCHANGED <<baseCount, leaked>>

\* w = std::move(rhs): "rhs.Swap(*this);"
MoveAssign(w, rhs) ==
    /\ UNCHANGED notScopedVars
    /\ ~aborted /\ live[w] /\ live[rhs] /\ wtype[w] = wtype[rhs]
    /\ m_obj' = [m_obj EXCEPT ![w] = m_obj[rhs], ![rhs] = m_obj[w]]
    /\ last' = [op |-> "MoveAssign", w |-> w, o |-> m_obj[rhs]]
    /\ UNCHANGED <<refVars, live, wtype, baseCount, leaked>>

\* w.Reset(o): "KScopedAutoObject(o).Swap(*this);" and the temporary, now
\* holding w's old pointer, is destroyed.
Reset(w, o) ==
    /\ UNCHANGED notScopedVars
    /\ ~aborted /\ live[w] /\ o \in PointersOf(wtype[w])
    /\ LET h1 == ScopedCtor(Heap, o)
           h2 == ScopedDtor(h1, m_obj[w])
       IN /\ SetHeap(h2)
          /\ m_obj' = [m_obj EXCEPT ![w] = o]
          /\ last' = [op |-> "Reset", w |-> w, o |-> o]
          /\ UNCHANGED <<live, wtype, baseCount, leaked>>

\* KScopedAutoObject<T> w(std::move(rhs)) with rhs a KScopedAutoObject<U>,
\* T derived from U or U derived from T.
ConvertMove(w, T, rhs) ==
    /\ UNCHANGED notScopedVars
    /\ ~aborted /\ ~live[w] /\ live[rhs]
    /\ IsDerivedFrom(T, wtype[rhs]) \/ IsDerivedFrom(wtype[rhs], T)
    /\ LET U == wtype[rhs]
           o == m_obj[rhs]
           upcast == IsDerivedFrom(U, T)
           derived == IF o # nullptr THEN DynamicCast(o, T) ELSE nullptr
           h == IF ~upcast /\ o # nullptr /\ derived = nullptr
                THEN DoClose(Heap, o) ELSE Heap
       IN /\ SetHeap(h)
          /\ last' = [op |-> "ConvertMove", w |-> w, o |-> o, rhs |-> rhs]
          /\ IF h.ab
             THEN UNCHANGED <<live, wtype, m_obj>>
             ELSE /\ live' = [live EXCEPT ![w] = TRUE]
                  /\ wtype' = [wtype EXCEPT ![w] = T]
                  /\ m_obj' = [m_obj EXCEPT ![w] = IF upcast THEN o ELSE derived,
                                            ![rhs] = nullptr]
          /\ UNCHANGED <<baseCount, leaked>>

\* w.ReleasePointerUnsafe(): the pointer leaves the wrapper with its reference.
ReleasePointerUnsafe(w) ==
    /\ UNCHANGED notScopedVars
    /\ ~aborted /\ live[w] /\ m_obj[w] # nullptr
    /\ leaked[m_obj[w]] < MaxLeaked
    /\ m_obj' = [m_obj EXCEPT ![w] = nullptr]
    /\ leaked' = [leaked EXCEPT ![m_obj[w]] = @ + 1]
    /\ last' = [op |-> "ReleasePointerUnsafe", w |-> w, o |-> m_obj[w]]
    /\ UNCHANGED <<refVars, live, wtype, baseCount>>

NextScoped ==
    \E w \in Wrappers :
        \/ \E T \in Classes, o \in Objects \cup {nullptr} : Construct(w, T, o)
        \/ Destruct(w)
        \/ \E rhs \in Wrappers : MoveAssign(w, rhs)
        \/ \E o \in Objects \cup {nullptr} : Reset(w, o)
        \/ \E T \in Classes, rhs \in Wrappers : ConvertMove(w, T, rhs)
        \/ ReleasePointerUnsafe(w)

SpecScoped == InitScoped /\ [][NextScoped]_vars

(***************************************************************************)
(* KAutoObjectWithListContainer and ListAccessor.                          *)
(***************************************************************************)
\* KLightLock::Lock by thread t: returns once t owns the lock.
LightLockFree == m_lock = NoThread

\* KAutoObjectWithList::GetId(): the object's identity orders the tree.
GetId(o) == o

\* ListType::begin(): the element with the least id, or end().
ListBegin ==
    IF m_object_list = {} THEN 0
    ELSE CHOOSE o \in m_object_list : \A p \in m_object_list : GetId(o) <= GetId(p)

\* ++iterator: the element with the next id, or end().
ListNext(o) ==
    LET after == {p \in m_object_list : GetId(p) > GetId(o)}
    IN IF after = {} THEN 0
       ELSE CHOOSE p \in after : \A q \in after : GetId(p) <= GetId(q)

InitCont ==
    InitObjectsFresh /\ InitThreads /\ InitNoWrappers /\ InitContainer /\ InitTable
    /\ InitRest

\* A thread calls Register(obj) and reaches KScopedLightLock lk(m_lock).
RegisterCall(t, o) ==
    /\ UNCHANGED notContVars
    /\ pc[t] = "idle"
    /\ pc' = [pc EXCEPT ![t] = "register_lock"]
    /\ iter' = [iter EXCEPT ![t] = o]
    /\ UNCHANGED <<m_lock, m_object_list>>

\* Register(obj): KScopedLightLock lk(m_lock) returns with the lock held.
RegisterLock(t) ==
    /\ UNCHANGED notContVars
    /\ pc[t] = "register_lock" /\ LightLockFree
    /\ m_lock' = t
    /\ pc' = [pc EXCEPT ![t] = "register"]
    /\ UNCHANGED <<m_object_list, iter>>

\* Register(obj): m_object_list.insert(*obj); and lk goes out of scope.
RegisterInsert(t) ==
    /\ UNCHANGED notContVars
    /\ pc[t] = "register"
    /\ m_object_list' = m_object_list \cup {iter[t]}
    /\ m_lock' = NoThread
    /\ pc' = [pc EXCEPT ![t] = "idle"]
    /\ iter' = [iter EXCEPT ![t] = 0]

\* A thread calls Unregister(obj) and reaches KScopedLightLock lk(m_lock).
UnregisterCall(t, o) ==
    /\ UNCHANGED notContVars
    /\ pc[t] = "idle"
    /\ pc' = [pc EXCEPT ![t] = "unregister_lock"]
    /\ iter' = [iter EXCEPT ![t] = o]
    /\ UNCHANGED <<m_lock, m_object_list>>

\* Unregister(obj): KScopedLightLock lk(m_lock) returns with the lock held.
UnregisterLock(t) ==
    /\ UNCHANGED notContVars
    /\ pc[t] = "unregister_lock" /\ LightLockFree
    /\ m_lock' = t
    /\ pc' = [pc EXCEPT ![t] = "unregister"]
    /\ UNCHANGED <<m_object_list, iter>>

\* Unregister(obj): m_object_list.erase(...); and lk goes out of scope.
UnregisterErase(t) ==
    /\ UNCHANGED notContVars
    /\ pc[t] = "unregister"
    /\ m_object_list' = m_object_list \ {iter[t]}
    /\ m_lock' = NoThread
    /\ pc' = [pc EXCEPT ![t] = "idle"]
    /\ iter' = [iter EXCEPT ![t] = 0]

\* A thread declares a ListAccessor and reaches its base's constructor.
ListAccessorCall(t) ==
    /\ UNCHANGED notContVars
    /\ pc[t] = "idle"
    /\ pc' = [pc EXCEPT ![t] = "accessor_lock"]
    /\ UNCHANGED <<m_lock, m_object_list, iter>>

\* ListAccessor(container): KScopedLightLock(container.m_lock),
\* m_list(container.m_object_list); the caller then takes begin().
ListAccessorCtor_NoLock(t) ==
    /\ UNCHANGED notContVars
    /\ pc[t] = "accessor_lock"
    /\ pc' = [pc EXCEPT ![t] = "accessor"]
    /\ iter' = [iter EXCEPT ![t] = ListBegin]
    /\ UNCHANGED <<m_lock, m_object_list>>

ListAccessorCtor(t) ==
    /\ UNCHANGED notContVars
    /\ pc[t] = "accessor_lock" /\ LightLockFree
    /\ m_lock' = t
    /\ pc' = [pc EXCEPT ![t] = "accessor"]
    /\ iter' = [iter EXCEPT ![t] = ListBegin]
    /\ UNCHANGED m_object_list

\* The caller walks the list through the accessor: ++it until end().
ListAccessorNext(t) ==
    /\ UNCHANGED notContVars
    /\ pc[t] = "accessor" /\ iter[t] # 0
    /\ iter' = [iter EXCEPT ![t] = ListNext(iter[t])]
    /\ UNCHANGED <<m_lock, m_object_list, pc>>

\* The accessor goes out of scope: ~KScopedLightLock() unlocks.
ListAccessorDtor(t) ==
    /\ UNCHANGED notContVars
    /\ pc[t] = "accessor"
    /\ m_lock' = IF m_lock = t THEN NoThread ELSE m_lock
    /\ pc' = [pc EXCEPT ![t] = "idle"]
    /\ iter' = [iter EXCEPT ![t] = 0]
    /\ UNCHANGED m_object_list

NextCont ==
    \E t \in Threads :
        \/ \E o \in Objects : RegisterCall(t, o)
        \/ RegisterLock(t)
        \/ RegisterInsert(t)
        \/ \E o \in Objects : UnregisterCall(t, o)
        \/ UnregisterLock(t)
        \/ UnregisterErase(t)
        \/ ListAccessorCall(t)
        \/ ListAccessorCtor(t)
        \/ ListAccessorNext(t)
        \/ ListAccessorDtor(t)

SpecCont == InitCont /\ [][NextCont]_vars

(***************************************************************************)
(* The handle table.                                                       *)
(***************************************************************************)
\* ErrCodes::InvalidHandle
InvalidHandle == 114
\* ErrorModule::Kernel
ErrorModule_Kernel == 1

\* ResultCode(module, description) and ResultCode(raw): the raw value holds
\* the module in bits 0..8 and the description in bits 9..21.
ResultCode(module, description) == [module |-> module, description |-> description]
ResultCodeRaw_AllOnes == [module |-> 511, description |-> 8191]
RESULT_SUCCESS == ResultCode(0, 0)

\* ERR_OUT_OF_HANDLES(-1)
ERR_OUT_OF_HANDLES == ResultCodeRaw_AllOnes

\* ERR_INVALID_HANDLE(ErrorModule::Kernel, ErrCodes::InvalidHandle)
ERR_INVALID_HANDLE_OS == ResultCodeRaw_AllOnes
ERR_INVALID_HANDLE == ResultCode(ErrorModule_Kernel, InvalidHandle)

\* The handles a caller may pass: every handle the table can issue, 0 and one
\* past the last.
HandleArgs == 0..(MaxHandles + 1)

\* A handle is valid when it has been issued and not closed since.
IsValid(handle) == handle \in 1..MaxHandles /\ h_objects[handle] # nullptr

ValidHandles == {h \in 1..MaxHandles : h_objects[h] # nullptr}

InitHandles ==
    /\ baseCount \in [Objects -> 1..MaxBase]
    /\ m_ref_count = baseCount
    /\ created = [o \in Objects |-> baseCount[o] > 0]
    /\ refsTaken = baseCount
    /\ destroyCount = [o \in Objects |-> 0]
    /\ zeroBy = [o \in Objects |-> NoThread]
    /\ destroyBy = [o \in Objects |-> NoThread]
    /\ closesDone = [o \in Objects |-> 0]
    /\ aborted = FALSE
    /\ InitThreads
    /\ m_obj = [w \in Wrappers |-> nullptr]
    /\ live = [w \in Wrappers |-> FALSE]
    /\ wtype = [w \in Wrappers |-> "none"]
    /\ leaked = [o \in Objects |-> 0]
    /\ last = [op |-> "none"]
    /\ InitContainer
    /\ InitTable
    /\ InitRest

\* Add(obj), called by a holder of a reference to obj: binds a fresh handle
\* to obj and takes an Open reference; fails when the table is full or no
\* fresh handle is left.
HandleAdd(o) ==
    /\ UNCHANGED notTableVars
    /\ ~aborted /\ ~ULess(m_ref_count[o], 1)
    /\ IF Cardinality(ValidHandles) >= TableSize \/ next_handle > MaxHandles
       THEN /\ last' = [op |-> "Add", handle |-> 0, o |-> o,
                        result |-> ERR_OUT_OF_HANDLES]
            /\ UNCHANGED <<refVars, tableVars, baseCount>>
       ELSE /\ SetHeap(DoOpen(Heap, o))
            /\ h_objects' = [h_objects EXCEPT ![next_handle] = o]
            /\ next_handle' = next_handle + 1
            /\ last' = [op |-> "Add", handle |-> next_handle, o |-> o,
                        result |-> RESULT_SUCCESS]
            /\ UNCHANGED baseCount

\* Close(handle): releases the table's reference and frees the slot.
HandleClose(handle) ==
    /\ UNCHANGED notTableVars
    /\ ~aborted
    /\ IF ~IsValid(handle)
       THEN /\ last' = [op |-> "Close", handle |-> handle, o |-> nullptr,
                        result |-> ERR_INVALID_HANDLE]
            /\ UNCHANGED <<refVars, tableVars, baseCount>>
       ELSE LET o == h_objects[handle]
            IN /\ SetHeap(DoClose(Heap, o))
               /\ h_objects' = [h_objects EXCEPT ![handle] = nullptr]
               /\ last' = [op |-> "Close", handle |-> handle, o |-> o,
                           result |-> RESULT_SUCCESS]
               /\ UNCHANGED <<next_handle, baseCount>>

\* GetObject(handle): the raw pointer bound to the handle; no reference taken.
HandleGetObject(handle) ==
    /\ UNCHANGED notTableVars
    /\ ~aborted
    /\ last' = IF IsValid(handle)
               THEN [op |-> "GetObject", handle |-> handle, o |-> h_objects[handle],
                     result |-> RESULT_SUCCESS]
               ELSE [op |-> "GetObject", handle |-> handle, o |-> nullptr,
                     result |-> ERR_INVALID_HANDLE]
    /\ UNCHANGED <<refVars, tableVars, baseCount>>

\* An owner of the object gives up one of its references.
OwnerClose(o) ==
    /\ UNCHANGED notTableVars
    /\ ~aborted /\ baseCount[o] > 0
    /\ SetHeap(DoClose(Heap, o))
    /\ baseCount' = [baseCount EXCEPT ![o] = @ - 1]
    /\ last' = [op |-> "OwnerClose", handle |-> 0, o |-> o, result |-> RESULT_SUCCESS]
    /\ UNCHANGED tableVars

NextHandles ==
    \/ \E o \in Objects : HandleAdd(o)
    \/ \E handle \in HandleArgs : HandleClose(handle)
    \/ \E handle \in HandleArgs : HandleGetObject(handle)
    \/ \E o \in Objects : OwnerClose(o)

SpecHandles == InitHandles /\ [][NextHandles]_vars

(***************************************************************************)
(* KClientPort.                                                            *)
(***************************************************************************)
\* ERR_MAX_CONNECTIONS_REACHED(-1)
ERR_MAX_CONNECTIONS_REACHED == ResultCodeRaw_AllOnes
\* ERR_SESSION_CLOSED_BY_REMOTE(-1)
ERR_SESSION_CLOSED_BY_REMOTE == ResultCodeRaw_AllOnes

\* IsServerClosed()
IsServerClosed_Never == FALSE
IsServerClosed == server_closed

\* IsSignaled(): a session slot is free or the server side has closed.
IsSignaled == num_sessions < max_sessions \/ IsServerClosed

\* CreateSession: num_sessions.compare_exchange_weak(cur_sessions, cur_sessions + 1)
SessionExchange_Blind(cur) == TRUE
SessionExchange(cur) == CompareExchange(num_sessions, cur)

\* CreateSession: no session slot is free.
SessionsFull_Never(cur) == FALSE
SessionsFull(cur) == ~(cur < max_sessions)

\* CreateSession: peak_sessions = max(peak_sessions, num_sessions)
PeakAfter_Last(peak, new) == new
PeakAfter(peak, new) == IF peak >= new THEN peak ELSE new

\* Initialize(parent_, max_sessions_, name_)
InitPort ==
    /\ InitKobj
    /\ InitPortFields
    /\ max_sessions \in 1..MaxSessions
    /\ InitEvent
    /\ InitNoSlab
    /\ InitGpu
    /\ InitNoMaxwell /\ InitLate

\* A thread calls CreateSession(out).
CreateSessionCall(t) ==
    /\ UNCHANGED notPortVars
    /\ pc[t] = "idle"
    /\ pc' = [pc EXCEPT ![t] = "cs_begin"]
    /\ UNCHANGED portVars

\* CreateSession: a closed port refuses; otherwise num_sessions is loaded.
CreateSessionBegin(t) ==
    /\ UNCHANGED notPortVars
    /\ pc[t] = "cs_begin"
    /\ IF IsServerClosed
       THEN /\ pc' = [pc EXCEPT ![t] = "idle"]
            /\ cs_result' = [cs_result EXCEPT ![t] = {ERR_SESSION_CLOSED_BY_REMOTE}]
            /\ UNCHANGED cs_cur
       ELSE /\ pc' = [pc EXCEPT ![t] = "cs_reserve"]
            /\ cs_cur' = [cs_cur EXCEPT ![t] = num_sessions]
            /\ UNCHANGED cs_result
    /\ UNCHANGED <<num_sessions, peak_sessions, max_sessions, server_closed,
                   live_sessions, max_seen, cs_new>>

\* CreateSession: fails once num_sessions == max_sessions, else increments
\* num_sessions atomically.
CreateSessionReserve(t) ==
    /\ UNCHANGED notPortVars
    /\ pc[t] = "cs_reserve"
    /\ LET cur == cs_cur[t]
       IN IF SessionsFull(cur)
          THEN /\ pc' = [pc EXCEPT ![t] = "idle"]
               /\ cs_result' = [cs_result EXCEPT ![t] = {ERR_MAX_CONNECTIONS_REACHED}]
               /\ cs_cur' = [cs_cur EXCEPT ![t] = 0]
               /\ UNCHANGED <<num_sessions, max_seen, cs_new>>
          ELSE IF SessionExchange(cur)
          THEN /\ num_sessions' = cur + 1
               /\ max_seen' = IF cur + 1 > max_seen THEN cur + 1 ELSE max_seen
               /\ cs_new' = [cs_new EXCEPT ![t] = cur + 1]
               /\ cs_cur' = [cs_cur EXCEPT ![t] = 0]
               /\ pc' = [pc EXCEPT ![t] = "cs_peak"]
               /\ UNCHANGED cs_result
          ELSE /\ cs_cur' = [cs_cur EXCEPT ![t] = num_sessions]
               /\ UNCHANGED <<num_sessions, max_seen, cs_new, cs_result, pc>>
    /\ UNCHANGED <<peak_sessions, max_sessions, server_closed, live_sessions>>

\* CreateSession: the peak is raised to the new count, the session exists.
CreateSessionPeak(t) ==
    /\ UNCHANGED notPortVars
    /\ pc[t] = "cs_peak"
    /\ peak_sessions' = PeakAfter(peak_sessions, cs_new[t])
    /\ live_sessions' = live_sessions + 1
    /\ cs_result' = [cs_result EXCEPT ![t] = {RESULT_SUCCESS}]
    /\ cs_new' = [cs_new EXCEPT ![t] = 0]
    /\ pc' = [pc EXCEPT ![t] = "idle"]
    /\ UNCHANGED <<num_sessions, max_sessions, server_closed, max_seen, cs_cur>>

\* OnSessionFinalized(): a session created by this port is destroyed.
OnSessionFinalized ==
    /\ UNCHANGED notPortVars
    /\ live_sessions > 0
    /\ num_sessions' = num_sessions - 1
    /\ live_sessions' = live_sessions - 1
    /\ UNCHANGED <<pc, peak_sessions, max_sessions, server_closed, max_seen, cs_cur,
                   cs_new, cs_result>>

\* OnServerClosed()
OnServerClosed ==
    /\ UNCHANGED notPortVars
    /\ ~server_closed
    /\ server_closed' = TRUE
    /\ UNCHANGED <<pc, num_sessions, peak_sessions, max_sessions, live_sessions,
                   max_seen, cs_cur, cs_new, cs_result>>

NextPort ==
    \/ \E t \in Threads : CreateSessionCall(t)
    \/ \E t \in Threads : CreateSessionBegin(t)
    \/ \E t \in Threads : CreateSessionReserve(t)
    \/ \E t \in Threads : CreateSessionPeak(t)
    \/ OnSessionFinalized
    \/ OnServerClosed

SpecPort == InitPort /\ [][NextPort]_vars

(***************************************************************************)
(* Common::Event.                                                          *)
(***************************************************************************)
\* The threads blocked inside condvar.wait / condvar.wait_until.
Blocked == {t \in Threads : pc[t] \in {"wait_blocked", "until_blocked"}}

\* condvar.notify_one(): one blocked thread, if there is any, is woken.
NotifyOne_Nobody(notified) == {notified}
NotifyOne(notified) ==
    IF Blocked \ notified = {}
    THEN {notified}
    ELSE {notified \cup {t} : t \in Blocked \ notified}

\* Wait / WaitUntil: is_set = false after the wait.
AfterWait_Keep(flag) == flag
AfterWait(flag) == FALSE

\* The wait that returns has observed the latest signal.
Observe(returns) ==
    IF returns = <<>> THEN returns
    ELSE [returns EXCEPT ![Len(returns)] = @ + 1]

InitEventSpec == InitKobj /\ InitNoPort /\ InitEvent /\ InitNoSlab /\ InitGpu /\ InitNoMaxwell /\ InitLate

\* Set(): std::lock_guard lk{mutex}
EventSetLock(t) ==
    /\ UNCHANGED notEventVars
    /\ pc[t] = "idle" /\ ev_mutex = NoThread
    /\ Len(ev_returns) < MaxSignals
    /\ ev_mutex' = t
    /\ pc' = [pc EXCEPT ![t] = "set"]
    /\ UNCHANGED <<is_set, ev_notified, ev_returns>>

\* Set(): "if (!is_set)"
SetActs_Always(flag) == TRUE

SetActs(flag) == ~flag

\* Set(): if (!is_set) { is_set = true; condvar.notify_one(); }
EventSet(t) ==
    /\ UNCHANGED notEventVars
    /\ pc[t] = "set"
    /\ IF SetActs(is_set)
       THEN /\ is_set' = TRUE
            /\ ev_notified' \in NotifyOne(ev_notified)
            /\ ev_returns' = Append(ev_returns, 0)
       ELSE UNCHANGED <<is_set, ev_notified, ev_returns>>
    /\ ev_mutex' = NoThread
    /\ pc' = [pc EXCEPT ![t] = "idle"]

\* Reset(): std::unique_lock lk{mutex}
EventResetLock(t) ==
    /\ UNCHANGED notEventVars
    /\ pc[t] = "idle" /\ ev_mutex = NoThread
    /\ ev_mutex' = t
    /\ pc' = [pc EXCEPT ![t] = "reset"]
    /\ UNCHANGED <<is_set, ev_notified, ev_returns>>

\* Reset(): is_set = false
EventReset(t) ==
    /\ UNCHANGED notEventVars
    /\ pc[t] = "reset"
    /\ is_set' = FALSE
    /\ ev_mutex' = NoThread
    /\ pc' = [pc EXCEPT ![t] = "idle"]
    /\ UNCHANGED <<ev_notified, ev_returns>>

\* Wait() / WaitUntil(): std::unique_lock lk{mutex}
EventWaitCall(t) ==
    /\ UNCHANGED notEventVars
    /\ pc[t] = "idle" /\ ev_mutex = NoThread
    /\ ev_mutex' = t
    /\ \E p \in {"wait_check", "until_check"} : pc' = [pc EXCEPT ![t] = p]
    /\ UNCHANGED <<is_set, ev_notified, ev_returns>>

\* condvar.wait(lk, pred) / wait_until(lk, time, pred): the predicate is
\* tested with the mutex held; the event is taken or the thread blocks,
\* releasing the mutex.
EventWaitCheck(t) ==
    /\ UNCHANGED notEventVars
    /\ pc[t] \in {"wait_check", "until_check"}
    /\ IF is_set
       THEN /\ is_set' = AfterWait(is_set)
            /\ ev_returns' = Observe(ev_returns)
            /\ pc' = [pc EXCEPT ![t] = "idle"]
       ELSE /\ pc' = [pc EXCEPT ![t] = IF pc[t] = "wait_check" THEN "wait_blocked"
                                                               ELSE "until_blocked"]
            /\ UNCHANGED <<is_set, ev_returns>>
    /\ ev_mutex' = NoThread
    /\ UNCHANGED ev_notified

\* A blocked thread picked by notify_one wakes up.
EventWake(t) ==
    /\ UNCHANGED notEventVars
    /\ t \in Blocked /\ t \in ev_notified
    /\ ev_notified' = ev_notified \ {t}
    /\ pc' = [pc EXCEPT ![t] = IF pc[t] = "wait_blocked" THEN "wait_relock"
                                                          ELSE "until_relock"]
    /\ UNCHANGED <<is_set, ev_mutex, ev_returns>>

\* A blocked thread wakes up spuriously.
EventSpuriousWake(t) ==
    /\ UNCHANGED notEventVars
    /\ t \in Blocked /\ t \notin ev_notified
    /\ pc' = [pc EXCEPT ![t] = IF pc[t] = "wait_blocked" THEN "wait_relock"
                                                          ELSE "until_relock"]
    /\ UNCHANGED <<is_set, ev_mutex, ev_notified, ev_returns>>

\* The woken thread takes the mutex again and tests the predicate again.
EventRelock(t) ==
    /\ UNCHANGED notEventVars
    /\ pc[t] \in {"wait_relock", "until_relock"} /\ ev_mutex = NoThread
    /\ ev_mutex' = t
    /\ pc' = [pc EXCEPT ![t] = IF pc[t] = "wait_relock" THEN "wait_check"
                                                         ELSE "until_check"]
    /\ UNCHANGED <<is_set, ev_notified, ev_returns>>

\* WaitUntil(): the time point passes while the thread is blocked.
EventTimeout(t) ==
    /\ UNCHANGED notEventVars
    /\ pc[t] = "until_blocked"
    /\ ev_notified' = ev_notified \ {t}
    /\ pc' = [pc EXCEPT ![t] = "until_expired"]
    /\ UNCHANGED <<is_set, ev_mutex, ev_returns>>

\* WaitUntil(): wait_until takes the mutex again after the timeout.
EventTimeoutRelock(t) ==
    /\ UNCHANGED notEventVars
    /\ pc[t] = "until_expired" /\ ev_mutex = NoThread
    /\ ev_mutex' = t
    /\ pc' = [pc EXCEPT ![t] = "until_final"]
    /\ UNCHANGED <<is_set, ev_notified, ev_returns>>

\* WaitUntil(): wait_until returns pred(); false returns false, true takes
\* the event.
EventTimeoutReturn(t) ==
    /\ UNCHANGED notEventVars
    /\ pc[t] = "until_final"
    /\ IF is_set
       THEN /\ is_set' = AfterWait(is_set)
            /\ ev_returns' = Observe(ev_returns)
       ELSE UNCHANGED <<is_set, ev_returns>>
    /\ ev_mutex' = NoThread
    /\ pc' = [pc EXCEPT ![t] = "idle"]
    /\ UNCHANGED ev_notified

NextEvent ==
    \/ \E t \in Threads : EventSetLock(t)
    \/ \E t \in Threads : EventSet(t)
    \/ \E t \in Threads : EventResetLock(t)
    \/ \E t \in Threads : EventReset(t)
    \/ \E t \in Threads : EventWaitCall(t)
    \/ \E t \in Threads : EventWaitCheck(t)
    \/ \E t \in Threads : EventWake(t)
    \/ \E t \in Threads : EventSpuriousWake(t)
    \/ \E t \in Threads : EventRelock(t)
    \/ \E t \in Threads : EventTimeout(t)
    \/ \E t \in Threads : EventTimeoutRelock(t)
    \/ \E t \in Threads : EventTimeoutReturn(t)

\* The thread that holds the mutex goes on, a notified thread wakes up, and
\* the mutex is not always handed to threads that are not waiting.
EventFairness ==
    /\ WF_vars(\E t \in Threads : EventSet(t) \/ EventReset(t) \/ EventWaitCheck(t)
                                      \/ EventTimeoutReturn(t))
    /\ WF_vars(\E t \in Threads : EventWake(t))
    /\ SF_vars(\E t \in Threads : EventRelock(t) \/ EventTimeoutRelock(t))

SpecEvent == InitEventSpec /\ [][NextEvent]_vars /\ EventFairness

(***************************************************************************)
(* Kernel::Init::InitializeSlabHeaps.                                      *)
(***************************************************************************)
\* enum KSlabType: Process, KThread, KEvent, KSharedMemory, KSlabType_Count
KSlabType_Count == 4
SlabTypes == 0..(KSlabType_Count - 1)

SlabCountProcess == 80
SlabCountKThread == 800
SlabCountKEvent == 700
SlabCountKSharedMemory == 80

\* SLAB_COUNT(CLASS) of the slab types of FOREACH_SLAB_TYPE, in enum order.
SLAB_COUNT(type) ==
    <<SlabCountProcess, SlabCountKThread, SlabCountKEvent, SlabCountKSharedMemory>>[type + 1]

\* alignof(void*)
PointerAlign == 8

\* The alignments a slab object type can have.
ObjectAligns == {PointerAlign, 2 * PointerAlign}

\* Common::AlignUp(value, size)
AlignUp(value, size) == ((value + size - 1) \div size) * size

\* CalculateSlabHeapGapSize()
CalculateSlabHeapGapSize == TotalGapSize

\* KSystemControl::GenerateRandomRange(min, max): inclusive at both ends.
GenerateRandomRange(min, max) == min..max

\* std::swap(a[i], a[j]) on a 0-based array held as a sequence.
Swap(a, i, j) == [a EXCEPT ![i + 1] = a[j + 1], ![j + 1] = a[i + 1]]

\* The inner loop of the sort: for (j = i; j > 0 && a[j - 1] > a[j]; j--) swap
RECURSIVE SinkGap(_, _)
SinkGap(a, j) ==
    IF j > 0 /\ a[j] > a[j + 1] THEN SinkGap(Swap(a, j, j - 1), j - 1) ELSE a

\* The outer loop of the sort: for (i = from; i < Size(a); i++)
RECURSIVE SortFrom(_, _)
SortFrom(a, i) == IF i < Len(a) THEN SortFrom(SinkGap(a, i), i + 1) ELSE a

\* The sort of slab_gaps.
SortGaps_Unsorted(gaps) == gaps
SortGaps(gaps) == SortFrom(gaps, 1)

\* The padding before the i-th slab.
GapBefore_Absolute(gaps, i) == gaps[i + 1]
GapBefore(gaps, i) == IF i = 0 THEN gaps[1] ELSE gaps[i + 1] - gaps[i]

\* InitializeSlabHeap<T>(system, memory_layout, address, num_objects): the
\* start and the end of the slab.
SlabHeapStart(addr, type) == AlignUp(addr, slab_alignof[type])
SlabHeapSize(type) == AlignUp(slab_sizeof[type] * SLAB_COUNT(type), PointerAlign)

\* The entry of InitializeSlabHeaps: slab_types is in enum order.
InitSlab ==
    /\ InitKobj /\ InitNoPort /\ InitEvent /\ InitGpu /\ InitNoMaxwell /\ InitLate
    /\ slab_pc = "shuffle"
    /\ slab_i = 0
    /\ slab_types = [k \in 1..KSlabType_Count |-> k - 1]
    /\ slab_gaps = <<>>
    /\ slab_region \in {0, PointerAlign \div 2}
    /\ address = slab_region
    /\ slab_alignof \in [SlabTypes -> ObjectAligns]
    /\ slab_sizeof \in {[type \in SlabTypes |-> slab_alignof[type] * w] : w \in 1..MaxObjectWords}
    /\ slab_pad = <<>>
    /\ slab_start = <<>>
    /\ slab_end = <<>>

\* One round of the loop that moves to the next phase after the last slab.
SlabLoopNext(next) ==
    IF slab_i + 1 < KSlabType_Count
    THEN slab_i' = slab_i + 1 /\ slab_pc' = slab_pc
    ELSE slab_i' = 0 /\ slab_pc' = next

\* rnd = GenerateRandomRange(0, Size(slab_types) - 1); swap(slab_types[i], slab_types[rnd])
ShuffleSlabType ==
    /\ UNCHANGED notSlabVars
    /\ slab_pc = "shuffle"
    /\ \E rnd \in GenerateRandomRange(0, KSlabType_Count - 1) :
           slab_types' = Swap(slab_types, slab_i, rnd)
    /\ SlabLoopNext("gaps")
    /\ UNCHANGED <<slab_gaps, address, slab_region, slab_alignof, slab_sizeof, slab_pad,
                   slab_start, slab_end>>

\* slab_gaps[i] = GenerateRandomRange(0, total_gap_size)
GenerateSlabGap ==
    /\ UNCHANGED notSlabVars
    /\ slab_pc = "gaps"
    /\ \E gap \in GenerateRandomRange(0, CalculateSlabHeapGapSize) :
           slab_gaps' = Append(slab_gaps, gap)
    /\ SlabLoopNext("sort")
    /\ UNCHANGED <<slab_types, address, slab_region, slab_alignof, slab_sizeof, slab_pad,
                   slab_start, slab_end>>

\* The gaps are sorted.
SortSlabGaps ==
    /\ UNCHANGED notSlabVars
    /\ slab_pc = "sort"
    /\ slab_gaps' = SortGaps(slab_gaps)
    /\ slab_pc' = "place"
    /\ UNCHANGED <<slab_i, slab_types, address, slab_region, slab_alignof, slab_sizeof,
                   slab_pad, slab_start, slab_end>>

\* address += gap; address = InitializeSlabHeap<NAME>(..., address, COUNT)
PlaceSlab ==
    /\ UNCHANGED notSlabVars
    /\ slab_pc = "place"
    /\ LET type == slab_types[slab_i + 1]
           pad == GapBefore(slab_gaps, slab_i)
           start == SlabHeapStart(address + pad, type)
       IN /\ address' = start + SlabHeapSize(type)
          /\ slab_pad' = Append(slab_pad, pad)
          /\ slab_start' = Append(slab_start, start)
          /\ slab_end' = Append(slab_end, start + SlabHeapSize(type))
    /\ SlabLoopNext("done")
    /\ UNCHANGED <<slab_types, slab_gaps, slab_region, slab_alignof, slab_sizeof>>

NextSlab ==
    \/ ShuffleSlabType
    \/ GenerateSlabGap
    \/ SortSlabGaps
    \/ PlaceSlab

SpecSlab == InitSlab /\ [][NextSlab]_vars

(***************************************************************************)
(* Tegra::MemoryManager.                                                   *)
(***************************************************************************)
\* The arguments the calls are made with.
Sizes == 0..MaxSize
Aligns == {1, PAGE_SIZE, 2 * PAGE_SIZE}
CpuAddrs == {1, 2 * MAX_ADDRESS}
PageBases == {p * PAGE_SIZE : p \in 0..(NumPages - 1)}
GpuAddrs == PageBases \cup {1}
SizesAt == {1, PAGE_SIZE + 1}
TranslatedAddrs == {1, PAGE_SIZE}

\* value >> bits
ShiftRight(value, bits) == value \div (2 ^ bits)

\* PageSlot(gpu_addr): the block and the index inside the block.
BlockOf(gpu_addr) == ShiftRight(gpu_addr, PAGE_BITS + PAGE_TABLE_BITS) % PAGE_TABLE_SIZE
IndexOf(gpu_addr) == ShiftRight(gpu_addr, PAGE_BITS) % PAGE_BLOCK_SIZE
SlotOf(table, gpu_addr) == table[BlockOf(gpu_addr)][IndexOf(gpu_addr)]
PageSlot(gpu_addr) == SlotOf(page_table, gpu_addr)

\* PageSlot(gpu_addr) = value
SetSlot(table, gpu_addr, value) ==
    [table EXCEPT ![BlockOf(gpu_addr)][IndexOf(gpu_addr)] = value]

\* IsPageMapped(gpu_addr)
IsPageMapped(gpu_addr) == PageSlot(gpu_addr) # Unmapped

\* FindFreeBlock: align = (align + PAGE_MASK) & ~PAGE_MASK
RoundAlign(align) == ((align + PAGE_MASK) \div PAGE_SIZE) * PAGE_SIZE

\* FindFreeBlock: the next candidate after a mapped page.
NextCandidate_Unaligned(gpu_addr, free_space, align) == gpu_addr + free_space + PAGE_SIZE
NextCandidate(gpu_addr, free_space, align) ==
    AlignUp(gpu_addr + free_space + PAGE_SIZE, align)

\* FindFreeBlock: the while loop; the result is {} or {gpu_addr}.
RECURSIVE FindFreeBlockLoop(_, _, _, _)
FindFreeBlockLoop(gpu_addr, free_space, size, align) ==
    IF gpu_addr + free_space < MAX_ADDRESS
    THEN IF ~IsPageMapped(gpu_addr + free_space)
         THEN IF free_space + PAGE_SIZE >= size
              THEN {gpu_addr}
              ELSE FindFreeBlockLoop(gpu_addr, free_space + PAGE_SIZE, size, align)
         ELSE FindFreeBlockLoop(NextCandidate(gpu_addr, free_space, align), 0, size, align)
    ELSE {}

\* FindFreeBlock(size, align)
FindFreeBlock(size, align) == FindFreeBlockLoop(0, 0, size, RoundAlign(align))

\* The value AllocateSpace stores in a page slot.
AllocateMark_None == Unmapped
AllocateMark == Allocated

\* The value MapBufferEx stores in the slot of the page at offset.
MappedSlot_Base(cpu_addr, offset) == cpu_addr
MappedSlot(cpu_addr, offset) == cpu_addr + offset

\* The value a call stores in the slot of the page at offset.
SlotValue(kind, cpu_addr, offset) ==
    IF kind = "AllocateSpace" THEN AllocateMark ELSE MappedSlot(cpu_addr, offset)

\* ASSERT(PageSlot(gpu_addr + offset) == expect) holds
SlotExpected_Any(slot, expect) == TRUE

SlotExpected(slot, expect) == slot = expect

\* for (offset = 0; offset < size; offset += PAGE_SIZE) { ASSERT(slot == expect);
\* slot = value; }: the table after the loop and whether every ASSERT held.
RECURSIVE MarkPages(_, _, _, _, _, _, _)
MarkPages(table, gpu_addr, offset, size, expect, kind, cpu_addr) ==
    IF offset < size
    THEN IF SlotExpected(SlotOf(table, gpu_addr + offset), expect)
         THEN MarkPages(SetSlot(table, gpu_addr + offset, SlotValue(kind, cpu_addr, offset)),
                        gpu_addr, offset + PAGE_SIZE, size, expect, kind, cpu_addr)
         ELSE [table |-> table, ok |-> FALSE]
    ELSE [table |-> table, ok |-> TRUE]

\* GpuToCpuAddress(gpu_addr) of a page that is not Unmapped: {} or {address}.
GpuToCpuAddress(gpu_addr) ==
    LET base_addr == PageSlot(gpu_addr)
    IN IF base_addr = Allocated THEN {} ELSE {base_addr + (gpu_addr % PAGE_SIZE)}

\* CpuToGpuAddress(cpu_addr): the results vector.
RECURSIVE CpuToGpuFrom(_, _)
CpuToGpuFrom(regions, cpu_addr) ==
    IF regions = <<>> THEN <<>>
    ELSE LET region == Head(regions)
             rest == CpuToGpuFrom(Tail(regions), cpu_addr)
         IN IF cpu_addr >= region.cpu_addr /\ cpu_addr < region.cpu_addr + region.size
            THEN <<region.gpu_addr + (cpu_addr - region.cpu_addr)>> \o rest
            ELSE rest

CpuToGpuAddress(cpu_addr) == CpuToGpuFrom(mapped_regions, cpu_addr)

\* AllocateSpace(size, align)
AllocateSpace(size, align) ==
    /\ UNCHANGED notGpuVars
    /\ mm_translated' = {}
    /\ ~mm_failed
    /\ Len(mm_ranges) < MaxCalls
    /\ LET gpu_addr == FindFreeBlock(size, align)
       IN IF gpu_addr = {}
          THEN /\ mm_failed' = TRUE
               /\ UNCHANGED <<page_table, mm_ranges>>
          ELSE \E g \in gpu_addr :
                 LET marked == MarkPages(page_table, g, 0, size, Unmapped, "AllocateSpace", 0)
                 IN /\ page_table' = marked.table
                    /\ mm_failed' = ~marked.ok
                    /\ mm_ranges' =
                         IF marked.ok
                         THEN Append(mm_ranges, [kind |-> "AllocateSpace", base |-> g,
                                                 size |-> size, align |-> align])
                         ELSE mm_ranges
    /\ UNCHANGED mapped_regions

\* MapBufferEx(cpu_addr, size)
MapBufferEx(cpu_addr, size) ==
    /\ UNCHANGED notGpuVars
    /\ mm_translated' = {}
    /\ ~mm_failed
    /\ Len(mm_ranges) < MaxCalls
    /\ LET gpu_addr == FindFreeBlock(size, PAGE_SIZE)
       IN IF gpu_addr = {}
          THEN /\ mm_failed' = TRUE
               /\ UNCHANGED <<page_table, mm_ranges, mapped_regions>>
          ELSE \E g \in gpu_addr :
                 LET marked == MarkPages(page_table, g, 0, size, Unmapped, "MapBufferEx",
                                         cpu_addr)
                 IN /\ page_table' = marked.table
                    /\ mm_failed' = ~marked.ok
                    /\ IF marked.ok
                       THEN /\ mm_ranges' = Append(mm_ranges, [kind |-> "MapBufferEx",
                                                               base |-> g, size |-> size,
                                                               align |-> PAGE_SIZE])
                            /\ mapped_regions' = Append(mapped_regions,
                                                        [cpu_addr |-> cpu_addr, gpu_addr |-> g,
                                                         size |-> size])
                       ELSE UNCHANGED <<mm_ranges, mapped_regions>>

\* AllocateSpace(gpu_addr, size, align)
AllocateSpaceAt(gpu_addr, size, align) ==
    /\ UNCHANGED notGpuVars
    /\ mm_translated' = {}
    /\ ~mm_failed
    /\ Len(mm_ranges) < MaxCalls
    /\ gpu_addr + size <= MAX_ADDRESS
    /\ LET marked == MarkPages(page_table, gpu_addr, 0, size, Unmapped, "AllocateSpace", 0)
       IN /\ page_table' = marked.table
          /\ mm_failed' = ~marked.ok
          /\ mm_ranges' =
               IF marked.ok
               THEN Append(mm_ranges, [kind |-> "AllocateSpaceAt", base |-> gpu_addr,
                                       size |-> size, align |-> align])
               ELSE mm_ranges
    /\ UNCHANGED mapped_regions

\* MapBufferEx(cpu_addr, gpu_addr, size)
MapBufferExAt(cpu_addr, gpu_addr, size) ==
    /\ UNCHANGED notGpuVars
    /\ mm_translated' = {}
    /\ ~mm_failed
    /\ Len(mm_ranges) < MaxCalls
    /\ gpu_addr + size <= MAX_ADDRESS
    /\ IF gpu_addr % PAGE_SIZE # 0
       THEN /\ mm_failed' = TRUE
            /\ UNCHANGED <<page_table, mapped_regions, mm_ranges>>
       ELSE LET marked == MarkPages(page_table, gpu_addr, 0, size, Allocated, "MapBufferEx",
                                    cpu_addr)
            IN /\ page_table' = marked.table
               /\ mm_failed' = ~marked.ok
               /\ IF marked.ok
                  THEN /\ mm_ranges' = Append(mm_ranges, [kind |-> "MapBufferExAt",
                                                          base |-> gpu_addr, size |-> size,
                                                          align |-> PAGE_SIZE])
                       /\ mapped_regions' = Append(mapped_regions,
                                                   [cpu_addr |-> cpu_addr,
                                                    gpu_addr |-> gpu_addr, size |-> size])
                  ELSE UNCHANGED <<mm_ranges, mapped_regions>>

\* ASSERT(base_addr != Unmapped) fails
TranslationAsserts_Never(base_addr) == FALSE

TranslationAsserts(base_addr) == base_addr = Unmapped

\* GpuToCpuAddress(gpu_addr), called: the ASSERT, then the optional result.
GpuToCpuAddressCall(gpu_addr) ==
    /\ UNCHANGED notGpuVars
    /\ ~mm_failed
    /\ LET base_addr == PageSlot(gpu_addr)
       IN /\ mm_failed' = TranslationAsserts(base_addr)
          /\ mm_translated' =
               {[gpu_addr |-> gpu_addr, slot |-> base_addr,
                 asserted |-> TranslationAsserts(base_addr),
                 result |-> IF TranslationAsserts(base_addr) THEN {}
                            ELSE GpuToCpuAddress(gpu_addr)]}
    /\ UNCHANGED <<page_table, mapped_regions, mm_ranges>>

InitGpuSpec == InitKobj /\ InitNoPort /\ InitEvent /\ InitNoSlab /\ InitGpu /\ InitNoMaxwell /\ InitLate

NextGpu ==
    \/ \E size \in Sizes, align \in Aligns : AllocateSpace(size, align)
    \/ \E cpu_addr \in CpuAddrs, size \in Sizes : MapBufferEx(cpu_addr, size)
    \/ \E gpu_addr \in PageBases : AllocateSpaceAt(gpu_addr, PAGE_SIZE, PAGE_SIZE)
    \/ \E gpu_addr \in GpuAddrs, size \in SizesAt : MapBufferExAt(1, gpu_addr, size)
    \/ \E gpu_addr \in TranslatedAddrs : GpuToCpuAddressCall(gpu_addr)

SpecGpu == InitGpuSpec /\ [][NextGpu]_vars

(***************************************************************************)
(* Tegra::Engines::Maxwell3D.                                              *)
(***************************************************************************)
\* The engine as one value, so that a handler can be applied to the state another
\* handler left.
Engine ==
    [regs |-> regs, executing_macro |-> executing_macro, macro_params |-> macro_params,
     shader_stages |-> shader_stages, memory |-> memory, failed |-> m3d_failed,
     trace |-> <<>>]

\* A failed ASSERT or UNIMPLEMENTED ends the run.
Fail(e, check) == [e EXCEPT !.failed = check]
Log(e, event) == [e EXCEPT !.trace = Append(@, event)]

SizeofU32 == 4
\* The CPU address the mapped pages are backed at, and the addresses an
\* indeterminate VAddr is drawn from.
BackingAddr == 2 * MAX_ADDRESS
IndeterminateAddrs == {0, BackingAddr}

\* The 64-bit address of a high and a low register; the low word spans AddressSpan.
AddressSpan == 2 * MAX_ADDRESS
GPUVAddr(high, low) == (high * AddressSpan) + low
CodeAddress(r) ==
    GPUVAddr(r[MAXWELL3D_REG_INDEX("code_address_high")],
             r[MAXWELL3D_REG_INDEX("code_address_low")])
BufferAddress(r) ==
    GPUVAddr(r[MAXWELL3D_REG_INDEX("cb_address_high")],
             r[MAXWELL3D_REG_INDEX("cb_address_low")])
QueryAddress(r) ==
    GPUVAddr(r[MAXWELL3D_REG_INDEX("query_address_high")],
             r[MAXWELL3D_REG_INDEX("query_address_low")])

\* cb_bind[stage].raw_config: valid is bit 0, index is bits 4..8.
BindValid(raw_config) == raw_config % 2
BindIndex(raw_config) == (raw_config \div (2 ^ 4)) % (2 ^ 5)
\* query_get.mode is bits 0..1; QueryMode::Write is 0.
QueryModeOf(query_get) == query_get % (2 ^ 2)
QueryModeWrite == 0

\* Memory::Write32(address, value)
Write32(mem, vaddr, value) ==
    [a \in (DOMAIN mem) \cup {vaddr} |-> IF a = vaddr THEN value ELSE mem[a]]

\* Memory::Write32(*address, value) for the optional GpuToCpuAddress(gpu_addr) returned:
\* every outcome. Reading the value of an empty optional is undefined: the build
\* either stops in the optional's own check or goes on with an indeterminate VAddr.
DerefWrite32(e, gpu_addr, value) ==
    LET translated == GpuToCpuAddress(gpu_addr)
    IN IF translated = {}
       THEN {Fail(e, "optional")} \cup
            {Log([e EXCEPT !.memory = Write32(@, a, value)],
                 [kind |-> "Write32", gpu_addr |-> gpu_addr, slot |-> PageSlot(gpu_addr),
                  address |-> a, value |-> value]) : a \in IndeterminateAddrs}
       ELSE {Log([e EXCEPT !.memory = Write32(@, a, value)],
                 [kind |-> "Write32", gpu_addr |-> gpu_addr, slot |-> PageSlot(gpu_addr),
                  address |-> a, value |-> value]) : a \in translated}

\* u32 sequence = regs.query.query_sequence
QuerySequence_Zero(r) == 0

QuerySequence(r) == r[MAXWELL3D_REG_INDEX("query_sequence")]

\* ProcessQueryGet()
ProcessQueryGet(e) ==
    LET sequence_address == QueryAddress(e.regs)
    IN IF TranslationAsserts(PageSlot(sequence_address))
       THEN {Fail(e, "ASSERT")}
       ELSE IF QueryModeOf(e.regs[MAXWELL3D_REG_INDEX("query_get")]) = QueryModeWrite
            THEN DerefWrite32(e, sequence_address, QuerySequence(e.regs))
            ELSE {Fail(e, "UNIMPLEMENTED")}

\* regs.index_array.count && regs.vertex_buffer.count: the ASSERT_MSG fails
BothDrawModes_Never(index_count, vertex_count) == FALSE

BothDrawModes(index_count, vertex_count) == index_count # 0 /\ vertex_count # 0

\* const bool is_indexed{regs.index_array.count && !regs.vertex_buffer.count}
IsIndexed_Never(index_count, vertex_count) == FALSE

IsIndexed(index_count, vertex_count) == index_count # 0 /\ vertex_count = 0

\* DrawArrays()
DrawArrays(e) ==
    LET index_count == e.regs[MAXWELL3D_REG_INDEX("index_array_count")]
        vertex_count == e.regs[MAXWELL3D_REG_INDEX("vertex_buffer_count")]
    IN IF BothDrawModes(index_count, vertex_count)
       THEN {Fail(e, "ASSERT")}
       ELSE {Log(e, [kind |-> "AccelerateDrawBatch",
                     is_indexed |-> IsIndexed(index_count, vertex_count)])}

\* state.shader_stages[static_cast<size_t>(stage)]
StageSlot_Vertex(stage) == 0

StageSlot(stage) == stage

\* ProcessCBBind(stage)
ProcessCBBind(e, stage) ==
    LET bind_data == e.regs[MAXWELL3D_REG_INDEX("cb_bind0") + stage]
    IN {Log([e EXCEPT !.shader_stages[StageSlot(stage)][BindIndex(bind_data)] =
                        [enabled |-> BindValid(bind_data) # 0,
                         index |-> BindIndex(bind_data),
                         address |-> BufferAddress(e.regs),
                         size |-> e.regs[MAXWELL3D_REG_INDEX("cb_size")]]],
            [kind |-> "ProcessCBBind", stage |-> stage])}

\* ASSERT(regs.const_buffer.cb_pos + sizeof(u32) <= regs.const_buffer.cb_size) holds
CBDataFits_Always(cb_pos, cb_size) == TRUE

CBDataFits(cb_pos, cb_size) == cb_pos + SizeofU32 <= cb_size

\* regs.const_buffer.cb_pos = regs.const_buffer.cb_pos + 4
AdvanceCursor_Stay(cb_pos) == cb_pos

AdvanceCursor(cb_pos) == cb_pos + 4

\* ProcessCBData(value)
ProcessCBData(e, value) ==
    LET buffer_address == BufferAddress(e.regs)
        cb_pos == e.regs[MAXWELL3D_REG_INDEX("cb_pos")]
    IN IF buffer_address = 0
       THEN {Fail(e, "ASSERT")}
       ELSE IF ~CBDataFits(cb_pos, e.regs[MAXWELL3D_REG_INDEX("cb_size")])
            THEN {Fail(e, "ASSERT")}
            ELSE IF TranslationAsserts(PageSlot(buffer_address + cb_pos))
                 THEN {Fail(e, "ASSERT")}
                 ELSE {IF w.failed # "no" THEN w
                       ELSE [w EXCEPT !.regs[MAXWELL3D_REG_INDEX("cb_pos")] =
                                        AdvanceCursor(cb_pos)] :
                       w \in DerefWrite32(e, buffer_address + cb_pos, value)}

\* switch (method) { ... }: the side effect of the register written.
SideEffect(e, method, value) ==
    IF method \in {MAXWELL3D_REG_INDEX("code_address_high"),
                   MAXWELL3D_REG_INDEX("code_address_low")}
    THEN IF CodeAddress(e.regs) = 0 THEN {e} ELSE {Fail(e, "ASSERT")}
    ELSE IF method \in {MAXWELL3D_REG_INDEX("cb_data0"), MAXWELL3D_REG_INDEX("cb_data1")}
    THEN ProcessCBData(e, value)
    ELSE IF method - MAXWELL3D_REG_INDEX("cb_bind0") \in ShaderStages
    THEN ProcessCBBind(e, method - MAXWELL3D_REG_INDEX("cb_bind0"))
    ELSE IF method = MAXWELL3D_REG_INDEX("vertex_end_gl")
    THEN DrawArrays(e)
    ELSE IF method = MAXWELL3D_REG_INDEX("query_get")
    THEN ProcessQueryGet(e)
    ELSE {e}

\* NotifyMaxwellRegisterChanged(method), reached when no check failed before it
Notify_Never(e, method) == e

Notify(e, method) ==
    IF e.failed # "no" THEN e
    ELSE Log(e, [kind |-> "NotifyMaxwellRegisterChanged", method |-> method])

\* regs.reg_array[method] = value
StoreReg_Skipped(e, method, value) == Log(e, [kind |-> "reg_array", method |-> method,
                                           value |-> value])

StoreReg(e, method, value) ==
    Log([e EXCEPT !.regs[method] = value],
        [kind |-> "reg_array", method |-> method, value |-> value])

\* WriteReg of a register below MacroRegistersStart: the store, the side effect,
\* the notification.
WriteLowReg(e, method, value) ==
    {Notify(w, method) : w \in SideEffect(StoreReg(e, method, value), method, value)}

\* ASSERT_MSG((method % 2) == 0, ...): a macro call begins on the macro method's
\* register, not on its argument register.
IsEntryRegister_Any(method) == TRUE

IsEntryRegister(method) == (method % 2) = 0

\* ASSERT(method == executing_macro + 1)
IsArgRegister_Any(executing, method) == TRUE

IsArgRegister(executing, method) == method = executing + 1

\* executing_macro = 0, before the macro is executed
ResetMacro_Keep(executing) == executing

ResetMacro(executing) == 0

\* std::move(macro_params): the vector the parameters were moved out of
MovedFrom_Kept(params) == params

MovedFrom(params) == <<>>

\* macro_params.push_back(value)
PushParam_Drop(params, value) == params

PushParam(params, value) == Append(params, value)

\* if (remaining_params == 0): the macro is called
IsLastParam_Never(remaining_params) == FALSE

IsLastParam(remaining_params) == remaining_params = 0

\* macro_code != uploaded_macros.end()
IsUploaded_Always(uploaded, method) == TRUE

IsUploaded(uploaded, method) == method \in DOMAIN uploaded

\* find(method)->second
MacroCode(uploaded, method) == IF method \in DOMAIN uploaded THEN uploaded[method] ELSE <<>>

RECURSIVE WriteRegFrom(_, _, _, _)
\* The body of a macro: the code of the model lists the registers the body writes
\* its first parameter to, each with WriteReg(method, value, 0).
RECURSIVE RunBody(_, _, _)
RunBody(e, code, parameters) ==
    IF code = <<>> \/ e.failed # "no" THEN {e}
    ELSE UNION {RunBody(w, Tail(code), parameters) :
                w \in WriteRegFrom(e, Head(code),
                                   IF parameters = <<>> THEN 0 ELSE parameters[1], 0)}

\* macro_interpreter.Execute(code, parameters)
Execute(e, method, code, parameters) ==
    RunBody(Log(e, [kind |-> "Execute", method |-> method, code |-> code,
                    parameters |-> parameters, executing_macro |-> e.executing_macro,
                    macro_params |-> e.macro_params]),
            code, parameters)

\* CallMacroMethod(method, parameters)
CallMacroMethod(e, method, parameters) ==
    IF ~IsUploaded(uploaded_macros, method)
    THEN {Fail(e, "ASSERT")}
    ELSE Execute([e EXCEPT !.executing_macro = ResetMacro(@)], method,
                 MacroCode(uploaded_macros, method), parameters)

\* "return;" at the end of the macro branch of WriteReg: nothing below it runs.
MacroReturn_FallThrough(e, method, value) ==
    IF e.failed # "no" THEN {e} ELSE WriteLowReg(e, method, value)

MacroReturn(e, method, value) == {e}

\* WriteReg(method, value, remaining_params) on the engine e: every outcome.
WriteRegFrom(e, method, value, remaining_params) ==
    IF ~(method < NUM_REGS)
    THEN {Fail(e, "ASSERT")}
    ELSE IF e.executing_macro # 0 /\ ~IsArgRegister(e.executing_macro, method)
    THEN {Fail(e, "ASSERT")}
    ELSE IF method >= MacroRegistersStart
    THEN IF e.executing_macro = 0 /\ ~IsEntryRegister(method)
         THEN {Fail(e, "ASSERT")}
         ELSE LET pushed == [e EXCEPT !.executing_macro = IF @ = 0 THEN method ELSE @,
                                      !.macro_params = PushParam(@, value)]
              IN UNION {MacroReturn(w, method, value) :
                        w \in IF IsLastParam(remaining_params)
                              THEN CallMacroMethod(
                                       [pushed EXCEPT !.macro_params = MovedFrom(@)],
                                       pushed.executing_macro, pushed.macro_params)
                              ELSE {pushed}}
    ELSE WriteLowReg(e, method, value)

\* GetRegisterValue(method)
GetRegisterValue(method) == regs[method]

\* SubmitMacroCode(entry, code)
SubmitMacroCode(entry, code) ==
    /\ UNCHANGED notMaxwellVars
    /\ m3d_failed = "no"
    /\ uploaded_macros' =
         [m \in (DOMAIN uploaded_macros) \cup {(entry * 2) + MacroRegistersStart} |->
            IF m = (entry * 2) + MacroRegistersStart THEN code ELSE uploaded_macros[m]]
    /\ UNCHANGED <<regs, executing_macro, macro_params, shader_stages, memory, m3d_failed,
                   m3d_trace, m3d_pending, m3d_writes, m3d_data, m3d_queries>>

\* The registers that describe the const buffer, and the cb_data registers.
ConstBufferSetup ==
    {MAXWELL3D_REG_INDEX(name) :
       name \in {"cb_size", "cb_address_high", "cb_address_low", "cb_pos"}}
ConstBufferData == {MAXWELL3D_REG_INDEX("cb_data0"), MAXWELL3D_REG_INDEX("cb_data1")}

\* WriteReg(method, value, remaining_params)
WriteReg(method, value, remaining_params) ==
    /\ UNCHANGED notMaxwellVars
    /\ m3d_failed = "no"
    /\ m3d_writes < MaxWrites
    /\ \E w \in WriteRegFrom(Engine, method, value, remaining_params) :
         /\ regs' = w.regs
         /\ executing_macro' = w.executing_macro
         /\ macro_params' = w.macro_params
         /\ shader_stages' = w.shader_stages
         /\ memory' = w.memory
         /\ m3d_failed' = w.failed
         /\ m3d_trace' = w.trace
         /\ m3d_queries' =
              IF /\ w.failed = "no"
                 /\ method = MAXWELL3D_REG_INDEX("query_get")
                 /\ executing_macro = 0
              THEN m3d_queries \o
                   [i \in 1..(Len(w.trace) - 2) |-> w.trace[i + 1].value]
              ELSE m3d_queries
         /\ m3d_data' =
              IF w.failed # "no" \/ method >= MacroRegistersStart THEN m3d_data
              ELSE IF method \in ConstBufferSetup
              THEN [start |-> w.regs[MAXWELL3D_REG_INDEX("cb_pos")], values |-> <<>>]
              ELSE IF method \in ConstBufferData
              THEN [m3d_data EXCEPT !.values = Append(@, value)]
              ELSE m3d_data
    /\ m3d_writes' = m3d_writes + 1
    /\ m3d_pending' =
         LET write == [method |-> method, value |-> value,
                       remaining_params |-> remaining_params]
         IN IF executing_macro # 0 THEN Append(m3d_pending, write)
            ELSE IF method >= MacroRegistersStart THEN <<write>>
            ELSE m3d_pending
    /\ UNCHANGED uploaded_macros

\* The GPU address space the command streams run against: the first page reserved by
\* AllocateSpace(0, MAX_ADDRESS, PAGE_SIZE), the pages after it mapped by
\* MapBufferEx(BackingAddr, PAGE_SIZE, MAX_ADDRESS - PAGE_SIZE), the rest Unmapped.
InitAddressSpace ==
    LET fresh == [b \in 0..PAGE_TABLE_MASK |-> [i \in 0..PAGE_BLOCK_MASK |-> Unmapped]]
        reserved == MarkPages(fresh, 0, 0, MAX_ADDRESS, Unmapped, "AllocateSpace", 0)
        mapped == MarkPages(reserved.table, PAGE_SIZE, 0, MAX_ADDRESS - PAGE_SIZE,
                            Allocated, "MapBufferEx", BackingAddr)
    IN /\ page_table = mapped.table
       /\ mapped_regions = <<[cpu_addr |-> BackingAddr, gpu_addr |-> PAGE_SIZE,
                              size |-> MAX_ADDRESS - PAGE_SIZE]>>
       /\ mm_ranges = <<[kind |-> "AllocateSpaceAt", base |-> 0, size |-> MAX_ADDRESS,
                         align |-> PAGE_SIZE],
                        [kind |-> "MapBufferExAt", base |-> PAGE_SIZE,
                         size |-> MAX_ADDRESS - PAGE_SIZE, align |-> PAGE_SIZE]>>
       /\ mm_failed = FALSE
       /\ mm_translated = {}

InitMaxwell ==
    /\ InitKobj /\ InitNoPort /\ InitEvent /\ InitNoSlab
    /\ InitAddressSpace
    /\ InitNoMaxwell /\ InitLate

\* The command streams: the registers written and the values written to them.
MacroRegs == MacroRegistersStart..(NUM_REGS - 1)
MacroValues == {1, 2}
MacroCodes == {<<>>, <<MAXWELL3D_REG_INDEX("unk")>>}
ValuesOf(method) ==
    IF method \in {MAXWELL3D_REG_INDEX("code_address_low"), MAXWELL3D_REG_INDEX("query_get")}
    THEN {0, 1}
    ELSE IF method = MAXWELL3D_REG_INDEX("query_address_low")
    THEN {1, PAGE_SIZE, MAX_ADDRESS}
    ELSE IF method = MAXWELL3D_REG_INDEX("cb_address_low")
    THEN {1, PAGE_SIZE}
    ELSE IF method = MAXWELL3D_REG_INDEX("cb_size")
    THEN {SizeofU32, 2 * SizeofU32}
    ELSE IF method = MAXWELL3D_REG_INDEX("cb_data0")
    THEN {1, 2}
    ELSE IF method - MAXWELL3D_REG_INDEX("cb_bind0") \in ShaderStages
    THEN {0, 1, (2 ^ 4) + 1}
    ELSE IF method = MAXWELL3D_REG_INDEX("query_sequence")
    THEN {1, 2}
    ELSE IF method \in {MAXWELL3D_REG_INDEX("vertex_buffer_count"),
                        MAXWELL3D_REG_INDEX("index_array_count"),
                        MAXWELL3D_REG_INDEX("cb_data1"), MAXWELL3D_REG_INDEX("unk")}
    THEN {1}
    ELSE {0}

NextMacro ==
    \/ \E entry \in 0..(NumMacros - 1), code \in MacroCodes : SubmitMacroCode(entry, code)
    \/ \E method \in MacroRegs \cup {NUM_REGS, MAXWELL3D_REG_INDEX("unk")},
          value \in MacroValues, remaining_params \in {0, 1} :
         WriteReg(method, value, remaining_params)

SpecMacro == InitMaxwell /\ [][NextMacro]_vars

\* The registers of the const buffer, and the other registers below the macros.
ConstBufferRegs ==
    {MAXWELL3D_REG_INDEX(name) :
       name \in {"cb_size", "cb_address_low", "cb_pos", "cb_data0", "cb_data1", "cb_bind0",
                 "cb_bind4"}}
EngineRegs ==
    {MAXWELL3D_REG_INDEX(name) :
       name \in {"code_address_high", "code_address_low", "vertex_buffer_count",
                 "vertex_end_gl", "index_array_count", "query_address_low", "query_sequence",
                 "query_get", "unk"}}

NextConstBuffer ==
    \E method \in ConstBufferRegs : \E value \in ValuesOf(method) : WriteReg(method, value, 0)

SpecConstBuffer == InitMaxwell /\ [][NextConstBuffer]_vars

NextMaxwell ==
    \E method \in EngineRegs : \E value \in ValuesOf(method) : WriteReg(method, value, 0)

SpecMaxwell == InitMaxwell /\ [][NextMaxwell]_vars


(***************************************************************************)
(* Service::NVFlinger::NVFlinger.                                          *)
(***************************************************************************)
\* The elements of a sequence.
Range(q) == {q[i] : i \in 1..Len(q)}

\* A BufferQueue object is named by its position in nvf_heap.
BufferQueue(id, layer_id) == [id |-> id, layer_id |-> layer_id, queue |-> <<>>]
\* std::find_if(buffer_queues.begin(), buffer_queues.end(), queue->GetId() == id):
\* the registered queues with the id.
FindQueue(id) == {buffer_queues[i] : i \in {j \in 1..Len(buffer_queues) :
                                              nvf_heap[buffer_queues[j]].id = id}}

\* return std::make_shared<BufferQueue>(0, 0): what GetBufferQueue returns, given
\* what the lookup found and the object it has just made.
Returned_Found(itr, placeholder) == IF itr = {} THEN placeholder ELSE CHOOSE q \in itr : TRUE

Returned(itr, placeholder) == placeholder

\* CreateLayer(display_id)
CreateLayer(display_id) ==
    /\ UNCHANGED notFlingerVars
    /\ ~nvf_failed
    /\ Len(nvf_heap) < MaxQueueObjects
    /\ IF display_id \notin DisplayIds \/ displays[display_id] # <<>>
       THEN /\ nvf_failed' = TRUE
            /\ UNCHANGED <<displays, buffer_queues, next_layer_id, next_buffer_queue_id,
                           nvf_heap>>
       ELSE LET layer_id == next_layer_id
                buffer_queue_id == next_buffer_queue_id
                buffer_queue == Len(nvf_heap) + 1
            IN /\ next_layer_id' = next_layer_id + 1
               /\ next_buffer_queue_id' = next_buffer_queue_id + 1
               /\ nvf_heap' = Append(nvf_heap, BufferQueue(buffer_queue_id, layer_id))
               /\ displays' = [displays EXCEPT ![display_id] =
                                 Append(@, [id |-> layer_id, buffer_queue |-> buffer_queue])]
               /\ buffer_queues' = Append(buffer_queues, buffer_queue)
               /\ UNCHANGED nvf_failed
    /\ UNCHANGED <<nvf_returned, nvf_flips>>

\* GetBufferQueue(id)
GetBufferQueue(id) ==
    /\ UNCHANGED notFlingerVars
    /\ ~nvf_failed
    /\ Len(nvf_heap) < MaxQueueObjects
    /\ LET itr == FindQueue(id)
           placeholder == Len(nvf_heap) + 1
       IN /\ nvf_heap' = Append(nvf_heap, BufferQueue(0, 0))
          /\ nvf_returned' = Append(nvf_returned,
                                    [id |-> id, queue |-> Returned(itr, placeholder)])
    /\ UNCHANGED <<displays, buffer_queues, next_layer_id, next_buffer_queue_id, nvf_flips,
                   nvf_failed>>

\* A caller queues the buffer of a slot through the object its last GetBufferQueue
\* returned (BufferQueue::QueueBuffer).
QueueBuffer(slot) ==
    /\ UNCHANGED notFlingerVars
    /\ ~nvf_failed
    /\ nvf_returned # <<>>
    /\ LET queue == nvf_returned[Len(nvf_returned)].queue
       IN /\ slot \notin Range(nvf_heap[queue].queue)
          /\ nvf_heap' = [nvf_heap EXCEPT ![queue].queue = Append(@, slot)]
    /\ UNCHANGED <<displays, buffer_queues, next_layer_id, next_buffer_queue_id,
                   nvf_returned, nvf_flips, nvf_failed>>

\* The loop of Compose over the displays from display_id on: the heap it leaves and
\* the buffers it has sent to nvdisp->flip. AcquireBuffer takes the first queued
\* buffer of the layer's queue and ReleaseBuffer frees its slot.
RECURSIVE ComposeFrom(_, _, _)
ComposeFrom(display_id, heap, flipped) ==
    IF display_id \notin DisplayIds THEN [heap |-> heap, flipped |-> flipped]
    ELSE IF displays[display_id] = <<>>
    THEN ComposeFrom(display_id + 1, heap, flipped)
    ELSE LET buffer_queue == displays[display_id][1].buffer_queue
         IN IF heap[buffer_queue].queue = <<>>
            THEN ComposeFrom(display_id + 1, heap, flipped)
            ELSE ComposeFrom(display_id + 1,
                             [heap EXCEPT ![buffer_queue].queue = Tail(@)],
                             Append(flipped, Head(heap[buffer_queue].queue)))

\* The buffers queued, at this moment, through the objects GetBufferQueue returned.
QueuedThroughReturned ==
    UNION {Range(nvf_heap[nvf_returned[i].queue].queue) : i \in 1..Len(nvf_returned)}

\* Compose()
Compose ==
    /\ UNCHANGED notFlingerVars
    /\ ~nvf_failed
    /\ Len(nvf_flips) < MaxComposes
    /\ LET composed == ComposeFrom(0, nvf_heap, <<>>)
       IN /\ nvf_heap' = composed.heap
          /\ nvf_flips' = Append(nvf_flips, [flipped |-> composed.flipped,
                                             queued |-> QueuedThroughReturned])
    /\ UNCHANGED <<displays, buffer_queues, next_layer_id, next_buffer_queue_id,
                   nvf_returned, nvf_failed>>

InitFlingerSpec ==
    /\ InitKobj /\ InitNoPort /\ InitEvent /\ InitNoSlab /\ InitGpu /\ InitNoMaxwell
    /\ InitFlinger /\ InitBarrierFields /\ b_count = 0

NextFlinger ==
    \/ \E display_id \in 0..Len(DisplayNames) : CreateLayer(display_id)
    \/ \E id \in 0..MaxQueueObjects : GetBufferQueue(id)
    \/ \E slot \in 0..(NumSlots - 1) : QueueBuffer(slot)
    \/ Compose

SpecFlinger == InitFlingerSpec /\ [][NextFlinger]_vars

(***************************************************************************)
(* Common::Barrier.                                                        *)
(***************************************************************************)
\* The threads that share the barrier.
SyncThreads == 1..NumSyncThreads

\* The threads inside condvar.wait of Sync.
InSync == {t \in SyncThreads : pc[t] \in {"sync_blocked", "sync_relock", "sync_check"}}

\* "if (++waiting == count)"
IsLastArrival(arrived, count) == arrived = count

\* The predicate of condvar.wait: "return current_generation != generation;"
WaitPredicate_Always(current, gen) == TRUE

WaitPredicate(current, gen) == current # gen

\* Sync(): std::unique_lock lk(mutex)
SyncLock(t) ==
    /\ UNCHANGED notBarrierVars
    /\ pc[t] = "idle" /\ b_mutex = NoThread
    /\ b_calls[t] < MaxSyncs
    /\ b_mutex' = t
    /\ b_calls' = [b_calls EXCEPT ![t] = @ + 1]
    /\ pc' = [pc EXCEPT ![t] = "sync"]
    /\ UNCHANGED <<b_count, waiting, generation, current_generation, b_returns, b_arrived>>

\* Sync(): current_generation = generation; if (++waiting == count) { generation++;
\* waiting = 0; condvar.notify_all(); } else the thread enters condvar.wait, which
\* tests the predicate and releases the mutex.
SyncArrive(t) ==
    /\ UNCHANGED notBarrierVars
    /\ pc[t] = "sync"
    /\ current_generation' = [current_generation EXCEPT ![t] = generation]
    /\ b_arrived' = Append(b_arrived, t)
    /\ IF IsLastArrival(waiting + 1, b_count)
       THEN /\ generation' = generation + 1
            /\ waiting' = 0
            /\ b_returns' = [b_returns EXCEPT ![t] = @ + 1]
            /\ pc' = [pc EXCEPT ![t] = "idle"]
       ELSE /\ waiting' = waiting + 1
            /\ UNCHANGED generation
            /\ IF WaitPredicate(generation, generation)
               THEN /\ b_returns' = [b_returns EXCEPT ![t] = @ + 1]
                    /\ pc' = [pc EXCEPT ![t] = "idle"]
               ELSE /\ pc' = [pc EXCEPT ![t] = "sync_blocked"]
                    /\ UNCHANGED b_returns
    /\ b_mutex' = NoThread
    /\ UNCHANGED <<b_count, b_calls>>

\* A thread blocked in condvar.wait wakes up: notified by notify_all, or spuriously.
SyncWake(t) ==
    /\ UNCHANGED notBarrierVars
    /\ pc[t] = "sync_blocked"
    /\ pc' = [pc EXCEPT ![t] = "sync_relock"]
    /\ UNCHANGED <<b_count, waiting, generation, b_mutex, current_generation, b_calls,
                   b_returns, b_arrived>>

\* The woken thread takes the mutex again.
SyncRelock(t) ==
    /\ UNCHANGED notBarrierVars
    /\ pc[t] = "sync_relock" /\ b_mutex = NoThread
    /\ b_mutex' = t
    /\ pc' = [pc EXCEPT ![t] = "sync_check"]
    /\ UNCHANGED <<b_count, waiting, generation, current_generation, b_calls, b_returns,
                   b_arrived>>

\* The woken thread tests the predicate: Sync returns, or the thread blocks again.
SyncCheck(t) ==
    /\ UNCHANGED notBarrierVars
    /\ pc[t] = "sync_check"
    /\ IF WaitPredicate(current_generation[t], generation)
       THEN /\ b_returns' = [b_returns EXCEPT ![t] = @ + 1]
            /\ pc' = [pc EXCEPT ![t] = "idle"]
       ELSE /\ pc' = [pc EXCEPT ![t] = "sync_blocked"]
            /\ UNCHANGED b_returns
    /\ b_mutex' = NoThread
    /\ UNCHANGED <<b_count, waiting, generation, current_generation, b_calls, b_arrived>>

\* Barrier(count): waiting(0), generation(0), for the threads that share it.
InitBarrier ==
    /\ InitKobj /\ InitNoPort /\ InitEvent /\ InitNoSlab /\ InitGpu /\ InitNoMaxwell
    /\ InitFlinger /\ InitBarrierFields
    /\ b_count \in 1..NumSyncThreads

NextBarrier ==
    \/ \E t \in SyncThreads : SyncLock(t)
    \/ \E t \in SyncThreads : SyncArrive(t)
    \/ \E t \in SyncThreads : SyncWake(t)
    \/ \E t \in SyncThreads : SyncRelock(t)
    \/ \E t \in SyncThreads : SyncCheck(t)

\* The thread that holds the mutex goes on, a blocked thread that has been notified
\* wakes up, and a woken thread gets the mutex in the end.
BarrierFairness ==
    \A t \in SyncThreads :
        /\ WF_vars(SyncArrive(t) \/ SyncCheck(t))
        /\ WF_vars(SyncWake(t) /\ current_generation[t] # generation)
        /\ SF_vars(SyncRelock(t))

SpecBarrier == InitBarrier /\ [][NextBarrier]_vars /\ BarrierFairness

(***************************************************************************)
(* Claims about KAutoObject::Open / Close.                                 *)
(***************************************************************************)
\* Thread t's Open returns in this step.
OpenReturns(t) == pc[t] = "open_loop" /\ pc'[t] = "idle"

\* Close calls on o that stored 0 and have Destroy() still ahead of them.
PendingDestroy(o) ==
    {t \in Threads : pc[t] = "close_tail" /\ self[t] = o /\ cur_ref_count[t] = 1}

\* C1: once as many Close calls have returned as references were taken on an
\* object brought to a positive count, Destroy has been called exactly once,
\* by the Close whose exchange moved the count from 1 to 0 and not before the
\* count reached 0; every Open that returns after the count reached 0 returns
\* false and leaves the count at 0.
C1_CloseBalancesOpen ==
    /\ [](\A o \in Objects :
            /\ (created[o] /\ closesDone[o] = refsTaken[o]) =>
                    (destroyCount[o] = 1 /\ m_ref_count[o] = 0)
            /\ destroyCount[o] > 0 =>
                    (zeroBy[o] # NoThread /\ destroyBy[o] = zeroBy[o]))
    /\ [][\A t \in Threads :
            (OpenReturns(t) /\ zeroBy[self[t]] # NoThread) =>
                (ret'[t] = "false" /\ m_ref_count'[self[t]] = 0)]_vars

C1_Witness ==
    \E o \in Objects, t \in Threads :
        /\ refsTaken[o] >= 2 /\ closesDone[o] = refsTaken[o] /\ destroyCount[o] = 1
        /\ self[t] = o /\ pc[t] = "idle" /\ ret[t] = "false" /\ nops[t] = MaxOps

\* C2: under every interleaving of concurrent Close calls exactly one of them
\* observes the transition to zero and calls Destroy: never two, and one as
\* soon as the count of a created object is 0.
C2_OneCloseDestroys ==
    \A o \in Objects :
        /\ destroyCount[o] <= 1
        /\ destroyCount[o] + Cardinality(PendingDestroy(o)) =
               (IF created[o] /\ m_ref_count[o] = 0 THEN 1 ELSE 0)

C2_Witness ==
    \E o \in Objects, t1, t2 \in Threads :
        /\ t1 # t2 /\ self[t1] = o /\ self[t2] = o
        /\ pc[t1] = "close_tail" /\ cur_ref_count[t1] = 2
        /\ pc[t2] = "close_tail" /\ cur_ref_count[t2] = 1
        /\ destroyCount[o] = 0

\* C3: when Open races with the Close of the last reference, Open either
\* succeeds on a positive count (and the count stays positive) or returns
\* false; the count never goes from 0 to a positive value, and an object for
\* which Destroy has been called keeps count 0.
C3_NoResurrection ==
    /\ [](\A o \in Objects : destroyCount[o] > 0 => m_ref_count[o] = 0)
    /\ [][\A o \in Objects :
            /\ (created[o] /\ m_ref_count[o] = 0) => m_ref_count'[o] = 0
            /\ \A t \in Threads :
                 (OpenReturns(t) /\ self[t] = o /\ ret'[t] = "true") =>
                     /\ m_ref_count[o] > 0
                     /\ m_ref_count'[o] = m_ref_count[o] + 1
                     /\ zeroBy[o] = NoThread]_vars

\* Open loaded the last reference's count and the racing Close stored 0 first.
C3_Witness ==
    \E o \in Objects, t \in Threads :
        /\ self[t] = o /\ pc[t] = "open_loop" /\ cur_ref_count[t] = 1
        /\ created[o] /\ m_ref_count[o] = 0 /\ zeroBy[o] \notin {NoThread, t}

\* C4: a Close that finds the count at 0 fails its assertion (fatal): it does
\* not store, the count never wraps below zero and stays the number of
\* references taken minus the number released, and no Close that loaded 0
\* goes on to Destroy.
C4_CloseUnderflowIsFatal ==
    /\ [](\A o \in Objects :
            /\ m_ref_count[o] >= 0
            /\ m_ref_count[o] = refsTaken[o] - closesDone[o]
                   - Cardinality({t \in Threads : pc[t] = "close_tail" /\ self[t] = o})
            /\ \A t \in Threads : pc[t] = "close_tail" => cur_ref_count[t] > 0)
    /\ [][\A t \in Threads :
            (pc[t] = "close_loop" /\ cur_ref_count[t] = 0 /\ pc'[t] # pc[t]) =>
                /\ pc'[t] = "assert_failed" /\ aborted'
                /\ m_ref_count' = m_ref_count
                /\ destroyCount' = destroyCount]_vars

C4_Witness ==
    \E t \in Threads :
        /\ aborted /\ pc[t] = "assert_failed" /\ cur_ref_count[t] = 0
        /\ m_ref_count[self[t]] = 0 /\ destroyCount[self[t]] = 1

\* C5 as claimed: the first Open on a freshly constructed object (count 0,
\* Create not run) succeeds and moves the count from 0 to 1.
C5_FirstOpenSucceeds ==
    \A t \in Threads :
        (pc[t] = "idle" /\ ret[t] # "none" /\ ~created[self[t]]) =>
            (ret[t] = "true" /\ m_ref_count[self[t]] = 1)

\* C5 (amended): a KAutoObject is constructed with reference count 0, and an
\* Open on the freshly constructed object returns false and leaves the count
\* at 0.
C5_FreshOpenFails ==
    \A o \in Objects :
        ~created[o] =>
            /\ m_ref_count[o] = 0
            /\ \A t \in Threads :
                 (pc[t] = "idle" /\ ret[t] # "none" /\ self[t] = o) => ret[t] = "false"

C5_Witness ==
    \E t \in Threads :
        /\ pc[t] = "idle" /\ ret[t] = "false" /\ self[t] # nullptr
        /\ ~created[self[t]] /\ m_ref_count[self[t]] = 0

(***************************************************************************)
(* Claims about KScopedAutoObject.                                         *)
(***************************************************************************)
\* The live wrappers that point at object o.
WrappersOn(o) == {w \in Wrappers : live[w] /\ m_obj[w] = o}

\* C6: for an object whose count was positive before any wrapper existed,
\* after any sequence of wrapper constructions from a raw pointer, move
\* assignments, Resets and wrapper destructions the count is that starting
\* count plus the number of live wrappers pointing at the object (so it is the
\* starting count again once no wrapper points at it), and the object has not
\* been destroyed.
C6_OneReferencePerWrapper ==
    \A o \in Objects :
        (baseCount[o] > 0 /\ leaked[o] = 0) =>
            /\ m_ref_count[o] = baseCount[o] + Cardinality(WrappersOn(o))
            /\ destroyCount[o] = 0

\* A wrapper has held the object and is gone again.
C6_Witness ==
    \E o \in Objects :
        /\ baseCount[o] > 0 /\ leaked[o] = 0 /\ m_ref_count[o] = baseCount[o]
        /\ \A w \in Wrappers : ~live[w]
        /\ last.op = "Destruct" /\ last.o = o

\* C7: the converting move constructor leaves its source null and live; an
\* upcast, and a downcast whose DynamicCast succeeds, hand the pointer over and
\* change no count; a downcast whose DynamicCast fails closes the object once
\* and yields a null wrapper; destroying the null source afterwards changes no
\* count.
C7_ConvertingMoveBalance ==
    [][/\ (last'.op = "ConvertMove" /\ ~aborted') =>
            LET w == last'.w
                rhs == last'.rhs
                o == m_obj[rhs]
                T == wtype'[w]
                U == wtype[rhs]
                fits == o # nullptr /\ IsDerivedFrom(GetTypeObj(o), T)
            IN /\ live'[w] /\ live'[rhs] /\ m_obj'[rhs] = nullptr
               /\ (IsDerivedFrom(U, T) \/ fits) =>
                      (m_obj'[w] = o /\ m_ref_count' = m_ref_count)
               /\ (~IsDerivedFrom(U, T) /\ o # nullptr /\ ~fits) =>
                      /\ m_obj'[w] = nullptr
                      /\ m_ref_count' = [m_ref_count EXCEPT ![o] = @ - 1]
               /\ (~IsDerivedFrom(U, T) /\ o = nullptr) =>
                      (m_obj'[w] = nullptr /\ m_ref_count' = m_ref_count)
       /\ (last'.op = "Destruct" /\ m_obj[last'.w] = nullptr) =>
            (m_ref_count' = m_ref_count /\ ~aborted')]_vars

\* A downcast failed: the object was closed and the new wrapper is null.
C7_Witness ==
    /\ last.op = "ConvertMove" /\ ~aborted
    /\ last.o # nullptr /\ m_obj[last.w] = nullptr /\ m_obj[last.rhs] = nullptr
    /\ live[last.w] /\ live[last.rhs]
    /\ m_ref_count[last.o] = baseCount[last.o] /\ baseCount[last.o] > 0
    /\ leaked[last.o] = 0
(***************************************************************************)
(* Claims about KAutoObjectWithListContainer.                              *)
(***************************************************************************)
\* The threads inside Register, Unregister or the scope of a ListAccessor.
InList == {t \in Threads : pc[t] \in {"register", "unregister", "accessor"}}

\* C8: access to the object list is mutually exclusive: a thread is inside
\* Register, Unregister or the scope of a ListAccessor only while it holds
\* the container lock, so no two threads are inside at once, and the lock is
\* free whenever no thread is inside (the accessor released it on leaving
\* scope); an iterator of an accessor always names an element of the list.
C8_ListAccessIsExclusive ==
    /\ \A t \in InList : m_lock = t
    /\ Cardinality(InList) <= 1
    /\ (InList = {}) => m_lock = NoThread
    /\ \A t \in Threads :
         (pc[t] = "accessor" /\ iter[t] # 0) => iter[t] \in m_object_list

\* An accessor is part-way through a list of two objects, holding the lock,
\* while a Register and another accessor wait for it.
C8_Witness ==
    \E t, t2, t3 \in Threads :
        /\ pc[t] = "accessor" /\ m_lock = t
        /\ Cardinality(m_object_list) >= 2
        /\ iter[t] # 0 /\ iter[t] # ListBegin
        /\ pc[t2] = "register_lock" /\ pc[t3] = "accessor_lock"
(***************************************************************************)
(* Claims about the handle table.                                          *)
(***************************************************************************)
\* The valid handles that name object o.
HandlesOn(o) == {h \in ValidHandles : h_objects[h] = o}

\* C9: allocating a handle takes one reference on the object and Close of a
\* valid handle releases exactly one and frees the slot, so an object's count
\* is always the references of its owners plus the number of valid handles
\* naming it; the object is destroyed exactly when that sum reaches 0, and
\* never while a valid handle names it.
C9_HandlesMirrorReferences ==
    /\ [](\A o \in Objects :
            /\ m_ref_count[o] = baseCount[o] + Cardinality(HandlesOn(o))
            /\ destroyCount[o] = (IF m_ref_count[o] = 0 THEN 1 ELSE 0)
            /\ HandlesOn(o) # {} => destroyCount[o] = 0)
    /\ [][/\ (last'.op = "Add" /\ last'.result = RESULT_SUCCESS) =>
               /\ ~IsValid(last'.handle) /\ h_objects'[last'.handle] = last'.o
               /\ m_ref_count' = [m_ref_count EXCEPT ![last'.o] = @ + 1]
          /\ (last'.op = "Close" /\ last'.result = RESULT_SUCCESS) =>
               /\ IsValid(last'.handle) /\ h_objects'[last'.handle] = nullptr
               /\ last'.o = h_objects[last'.handle]
               /\ m_ref_count' = [m_ref_count EXCEPT ![last'.o] = @ - 1]
          /\ last'.op = "GetObject" =>
               (m_ref_count' = m_ref_count /\ h_objects' = h_objects)]_vars

\* The table holds the last reference of an object through two handles, and
\* one has just been closed.
C9_Witness ==
    \E o \in Objects :
        /\ baseCount[o] = 0 /\ Cardinality(HandlesOn(o)) = 1 /\ m_ref_count[o] = 1
        /\ last.op = "Close" /\ last.o = o /\ last.result = RESULT_SUCCESS

Reserving == {t \in Threads : pc[t] = "cs_peak"}

\* C11: under every interleaving of CreateSession and OnSessionFinalized,
\* 0 <= num_sessions <= max_sessions, and num_sessions is the number of
\* successful CreateSession calls minus the number of finalized sessions.
C11_SessionsWithinCapacity ==
    /\ 0 <= num_sessions /\ num_sessions <= max_sessions
    /\ num_sessions = live_sessions + Cardinality(Reserving)

\* Two CreateSession calls have loaded the same count and race for the last slot.
C11_Witness ==
    \E t1, t2 \in Threads :
        /\ t1 # t2 /\ pc[t1] = "cs_reserve" /\ pc[t2] = "cs_peak"
        /\ cs_cur[t1] = max_sessions - 1 /\ num_sessions = max_sessions
        /\ peak_sessions = max_sessions

\* C12: a CreateSession that finds num_sessions == max_sessions returns the
\* max-connections-reached error, creates no session and changes neither
\* num_sessions nor peak_sessions; a CreateSession that finds a free slot
\* (again) takes it.
C12_CapacityErrorChangesNothing ==
    [][\A t \in Threads :
          (pc[t] = "cs_reserve" /\ pc'[t] # pc[t]) =>
              IF cs_cur[t] = max_sessions
              THEN /\ pc'[t] = "idle"
                   /\ cs_result'[t] = {ERR_MAX_CONNECTIONS_REACHED}
                   /\ cs_result'[t] # {RESULT_SUCCESS}
                   /\ num_sessions' = num_sessions
                   /\ peak_sessions' = peak_sessions
                   /\ live_sessions' = live_sessions
              ELSE /\ cs_cur[t] < max_sessions /\ cs_cur[t] = num_sessions
                   /\ pc'[t] = "cs_peak"
                   /\ num_sessions' = num_sessions + 1]_vars

\* A thread whose CreateSession failed on a full port has, after a session was
\* finalized, taken a slot with its next call.
C12_Witness ==
    \E t \in Threads :
        /\ pc[t] = "cs_peak" /\ cs_result[t] = {ERR_MAX_CONNECTIONS_REACHED}
        /\ ~server_closed /\ peak_sessions = max_sessions
        /\ num_sessions <= max_sessions

\* C13 as stated: in every reachable state peak_sessions is the largest value
\* num_sessions has had and num_sessions <= peak_sessions <= max_sessions.
C13_PeakBoundsCount ==
    /\ peak_sessions = max_seen
    /\ num_sessions <= peak_sessions /\ peak_sessions <= max_sessions

\* C13: peak_sessions never decreases and never exceeds max_sessions;
\* num_sessions exceeds it by at most the CreateSession calls that have taken
\* a slot and not yet returned, and once they have returned peak_sessions is
\* the largest value num_sessions has ever had.
C13_PeakIsMaximum ==
    /\ [](/\ peak_sessions <= max_seen /\ max_seen <= max_sessions
          /\ num_sessions <= peak_sessions + Cardinality(Reserving)
          /\ (Reserving = {}) => (peak_sessions = max_seen /\ num_sessions <= peak_sessions))
    /\ [][peak_sessions' >= peak_sessions]_vars

\* The count has fallen below the peak it once reached.
C13_Witness ==
    /\ Reserving = {} /\ peak_sessions = max_sessions /\ max_sessions >= 2
    /\ num_sessions = 0

\* C14: once OnServerClosed has been called the port stays closed and
\* signaled, and every CreateSession that starts afterwards returns the
\* port-closed error, whatever the free capacity, changing no counter.
C14_ClosedPortRefuses ==
    /\ [](server_closed => IsSignaled)
    /\ [][/\ server_closed => server_closed'
          /\ \A t \in Threads :
               (server_closed /\ pc[t] = "cs_begin" /\ pc'[t] # pc[t]) =>
                   /\ pc'[t] = "idle"
                   /\ cs_result'[t] = {ERR_SESSION_CLOSED_BY_REMOTE}
                   /\ cs_result'[t] # {RESULT_SUCCESS}
                   /\ num_sessions' = num_sessions
                   /\ peak_sessions' = peak_sessions
                   /\ live_sessions' = live_sessions]_vars

\* A CreateSession was refused by a closed port that had a free slot.
C14_Witness ==
    \E t \in Threads :
        /\ server_closed /\ pc[t] = "idle"
        /\ cs_result[t] = {ERR_SESSION_CLOSED_BY_REMOTE}
        /\ max_seen = 0 /\ num_sessions < max_sessions

(***************************************************************************)
(* Claims about Common::Event.                                             *)
(***************************************************************************)
\* The threads inside Wait / WaitUntil that have not yet returned.
Waiters ==
    {t \in Threads : pc[t] \in {"wait_check", "wait_blocked", "wait_relock",
                                "until_check", "until_blocked", "until_relock",
                                "until_expired", "until_final"}}

\* C16: for one Set at most one Wait / WaitUntil returns, a signal that is
\* still set has been observed by nobody, the flag changes only under the
\* mutex, and while a thread waits a set flag is taken in the end.
C16_OneWaiterPerSet ==
    /\ [](/\ \A i \in 1..Len(ev_returns) : ev_returns[i] <= 1
          /\ is_set => (ev_returns # <<>> /\ ev_returns[Len(ev_returns)] = 0))
    /\ [][is_set' # is_set => (ev_mutex # NoThread /\ ev_mutex' = NoThread)]_vars
    /\ ((is_set /\ Waiters # {}) ~> ~is_set)

\* One waiter has returned for a Set while another one is still blocked.
C16_Witness ==
    /\ ev_returns # <<>> /\ ev_returns[Len(ev_returns)] = 1 /\ ~is_set
    /\ Cardinality(Blocked) >= 1
    /\ \E t \in Threads : pc[t] = "idle"

(***************************************************************************)
(* Claims about InitializeSlabHeaps.                                       *)
(***************************************************************************)
RECURSIVE SumSeq(_)
SumSeq(q) == IF q = <<>> THEN 0 ELSE Head(q) + SumSeq(Tail(q))

\* C17: whatever the random generator returns, the padding before slab i is
\* slab_gaps[0] for i = 0 and slab_gaps[i] - slab_gaps[i-1] otherwise, every
\* padding is non-negative, the paddings sum to at most the gap budget, the
\* slab starts are strictly increasing and no two slabs overlap.
C17_GapsWithinBudget ==
    /\ \A i \in 1..Len(slab_pad) :
          /\ slab_pad[i] = IF i = 1 THEN slab_gaps[1] ELSE slab_gaps[i] - slab_gaps[i - 1]
          /\ slab_pad[i] >= 0
          /\ slab_start[i] < slab_end[i]
    /\ SumSeq(slab_pad) <= CalculateSlabHeapGapSize
    /\ \A i, j \in 1..Len(slab_start) :
          i < j => (slab_start[i] < slab_start[j] /\ slab_end[i] <= slab_start[j])

\* All slabs are placed in a shuffled order, the whole budget is used, one
\* padding is zero and one slab start had to be aligned.
C17_Witness ==
    /\ slab_pc = "done" /\ Len(slab_start) = KSlabType_Count
    /\ slab_types # [k \in 1..KSlabType_Count |-> k - 1]
    /\ SumSeq(slab_pad) = CalculateSlabHeapGapSize
    /\ \E i \in 1..Len(slab_pad) : slab_pad[i] = 0
    /\ \E i \in 2..Len(slab_pad) : slab_start[i] > slab_end[i - 1] + slab_pad[i]

(***************************************************************************)
(* Claims about Tegra::MemoryManager.                                      *)
(***************************************************************************)
\* The elements of a sequence.

\* C18: for every region MapBufferEx has recorded and every k below its size,
\* GpuToCpuAddress(gpu_addr + k) is cpu_addr + k and CpuToGpuAddress(cpu_addr + k)
\* contains gpu_addr + k, whatever the alignment of cpu_addr and the size.
C18_MappingRoundTrip ==
    \A i \in 1..Len(mapped_regions) :
        LET region == mapped_regions[i]
        IN \A k \in 0..(region.size - 1) :
              /\ GpuToCpuAddress(region.gpu_addr + k) = {region.cpu_addr + k}
              /\ region.gpu_addr + k \in Range(CpuToGpuAddress(region.cpu_addr + k))

\* MapBufferEx has found a block above an allocation for a host address that
\* is not page-aligned and a size that is not a multiple of the page size.
C18_Witness ==
    \E i \in 1..Len(mm_ranges) :
        /\ mm_ranges[i].kind = "MapBufferEx" /\ mm_ranges[i].base > 0
        /\ mm_ranges[i].size > PAGE_SIZE /\ mm_ranges[i].size % PAGE_SIZE # 0
        /\ \E r \in Range(mapped_regions) :
              /\ r.gpu_addr = mm_ranges[i].base /\ r.size = mm_ranges[i].size
              /\ r.cpu_addr % PAGE_SIZE # 0

\* The calls that found their block with FindFreeBlock.
Found == {i \in 1..Len(mm_ranges) : mm_ranges[i].kind \in {"AllocateSpace", "MapBufferEx"}}

\* C19: every base AllocateSpace(size, align) or MapBufferEx(cpu_addr, size)
\* has returned is page-aligned, and the ranges [base, base + size) of
\* different calls are pairwise disjoint.
C19_FoundBlocksDisjoint ==
    /\ \A i \in Found : mm_ranges[i].base % PAGE_SIZE = 0
    /\ \A i, j \in Found :
          i < j => \/ mm_ranges[i].size = 0 \/ mm_ranges[j].size = 0
                   \/ mm_ranges[i].base + mm_ranges[i].size <= mm_ranges[j].base
                   \/ mm_ranges[j].base + mm_ranges[j].size <= mm_ranges[i].base

\* Two AllocateSpace calls of one page with an alignment below the page size
\* on a fresh address space.
C19_Witness ==
    /\ Len(mm_ranges) = 2
    /\ \A i \in 1..2 : /\ mm_ranges[i].kind = "AllocateSpace"
                       /\ mm_ranges[i].size = PAGE_SIZE /\ mm_ranges[i].align = 1
    /\ mm_ranges[1].base = 0 /\ mm_ranges[2].base = PAGE_SIZE
    /\ PageSlot(0) = Allocated /\ PageSlot(PAGE_SIZE) = Allocated

\* The addresses of the first bytes of the pages of [gpu_addr, gpu_addr + size).
PagesOf(gpu_addr, size) ==
    {gpu_addr + offset : offset \in {o \in 0..(size - 1) : o % PAGE_SIZE = 0}}

\* A block FindFreeBlock(size, align) may return.
IsFreeBlock(gpu_addr, size, align) ==
    /\ gpu_addr % RoundAlign(align) = 0
    /\ \A page \in PagesOf(gpu_addr, size) : page < MAX_ADDRESS /\ PageSlot(page) = Unmapped

\* C20: FindFreeBlock(size, align) with size > 0 returns the lowest multiple
\* of the page-rounded align whose pages are all Unmapped and below
\* MAX_ADDRESS, and returns the empty result exactly when there is none.
C20_FindsLowestFreeBlock ==
    \A size \in 1..MaxSize, align \in Aligns :
        LET free == {g \in 0..(MAX_ADDRESS - 1) : IsFreeBlock(g, size, align)}
        IN IF free = {}
           THEN FindFreeBlock(size, align) = {}
           ELSE FindFreeBlock(size, align) = {CHOOSE g \in free : \A h \in free : g <= h}

\* After a mapped first page a search with twice the page size as alignment
\* has skipped a free page, and no block of MaxSize bytes is left although
\* pages are free.
C20_Witness ==
    /\ Len(mm_ranges) = 2
    /\ mm_ranges[2].kind = "AllocateSpace" /\ mm_ranges[2].align = 2 * PAGE_SIZE
    /\ mm_ranges[2].base = 2 * PAGE_SIZE /\ mm_ranges[2].size = 1
    /\ IsPageMapped(0) /\ ~IsPageMapped(PAGE_SIZE)
    /\ FindFreeBlock(MaxSize, 1) = {}
    /\ FindFreeBlock(1, 1) = {PAGE_SIZE}
(***************************************************************************)
(* Claims about MemoryManager::GpuToCpuAddress.                            *)
(***************************************************************************)
\* C21: GpuToCpuAddress has exactly three outcomes, decided by the slot of the
\* page of the GPU address: a failed assertion when the slot is Unmapped, the
\* empty result when it is Allocated, and otherwise the slot's base CPU address
\* plus the offset of the GPU address inside its page; no address is ever
\* returned for an Unmapped or an Allocated page.
C21_TranslationOutcomes ==
    \A t \in mm_translated :
        /\ t.slot = Unmapped => t.asserted /\ t.result = {}
        /\ t.slot = Allocated => ~t.asserted /\ t.result = {}
        /\ t.slot \notin {Unmapped, Allocated} =>
              ~t.asserted /\ t.result = {t.slot + (t.gpu_addr % PAGE_SIZE)}

\* All three outcomes have happened: this one is the backed page, read at an
\* offset inside the page; the two others are C21_WitnessAllocated/Unmapped.
C21_Witness ==
    \E t \in mm_translated :
        /\ t.slot \notin {Unmapped, Allocated}
        /\ t.gpu_addr % PAGE_SIZE # 0
        /\ t.result # {}

C21_WitnessAllocated == \E t \in mm_translated : t.slot = Allocated /\ t.result = {}

C21_WitnessUnmapped == \E t \in mm_translated : t.slot = Unmapped /\ mm_failed

(***************************************************************************)
(* Claims about Tegra::Engines::Maxwell3D.                                 *)
(***************************************************************************)
\* The memory accesses of the last WriteReg.
Accesses == {m3d_trace[i] : i \in {j \in 1..Len(m3d_trace) : m3d_trace[j].kind = "Write32"}}

\* C22: the const buffer data write and the query completion access guest memory
\* through a translated GPU address only if the page of that address is backed;
\* through a page that is only Allocated no memory access is performed.
C22_AccessOnlyWhenBacked ==
    \A access \in Accesses : access.slot \notin {Unmapped, Allocated}

\* The macro executions of the last WriteReg.
Executions == {i \in 1..Len(m3d_trace) : m3d_trace[i].kind = "Execute"}

\* A macro call was begun, in the Idle state, by a write to this register.
BegunOn(method) == Len(m3d_pending) = 1 /\ m3d_pending[1].method = method

\* C23: a WriteReg to an odd (argument) register at or above MacroRegistersStart
\* while no macro is accumulating fails a fatal assertion: it starts no macro and
\* executes none.
C23_ArgumentRegisterFirstRejected ==
    \A method \in MacroRegs :
        BegunOn(method) /\ (method % 2) = 1 =>
            /\ m3d_failed = "ASSERT"
            /\ executing_macro = 0
            /\ macro_params = <<>>
            /\ Executions = {}

C23_Witness ==
    \E method \in MacroRegs :
        BegunOn(method) /\ (method % 2) = 1 /\ m3d_failed = "ASSERT" /\ m3d_writes > 1

\* The last WriteReg handed a macro to the interpreter; m3d_pending is then the entry
\* write and the argument writes of that call.
Flushed == m3d_trace # <<>> /\ m3d_trace[1].kind = "Execute"
ValuesOfWrites(writes) == [i \in 1..Len(writes) |-> writes[i].value]
OnlyLastIsFinal(writes) ==
    \A i \in 1..Len(writes) : (writes[i].remaining_params = 0) <=> (i = Len(writes))

\* C24 as stated: an entry register write followed by N argument writes, of which only
\* the Nth has remaining_params == 0, triggers exactly one macro execution, whose
\* parameter list is exactly the N argument values in write order.
C24_ParametersAreTheArguments ==
    Flushed /\ Len(m3d_pending) >= 2 =>
        /\ Cardinality(Executions) = 1
        /\ m3d_trace[1].parameters = ValuesOfWrites(Tail(m3d_pending))

\* C24, amended: the write that has remaining_params == 0, and no earlier one, triggers
\* exactly one macro execution, of the macro of the entry register; its parameter list
\* is the value of the entry write followed by the N argument values in write order.
C24_ParametersAreAllWrites ==
    /\ Flushed =>
         /\ Cardinality(Executions) = 1
         /\ OnlyLastIsFinal(m3d_pending)
         /\ m3d_trace[1].method = m3d_pending[1].method
         /\ m3d_trace[1].parameters = ValuesOfWrites(m3d_pending)
    /\ m3d_trace = <<>> /\ m3d_pending # <<>> /\ m3d_failed = "no" =>
         /\ Executions = {}
         /\ \A i \in 1..Len(m3d_pending) : m3d_pending[i].remaining_params # 0

C24_Witness ==
    /\ Flushed
    /\ Len(m3d_pending) = 3
    /\ m3d_pending[2].value # m3d_pending[3].value
    /\ m3d_pending[1].value # m3d_pending[2].value

\* The last WriteReg was made while a macro was accumulating, and was not the final one.
WroteWhileAccumulating ==
    Len(m3d_pending) >= 2 /\ m3d_pending[Len(m3d_pending)].remaining_params # 0
FrontOf(writes) == SubSeq(writes, 1, Len(writes) - 1)

\* C25 as stated: while a macro is accumulating, every subsequent WriteReg, whether it
\* targets the paired argument register or any other register, is accepted and appends
\* its value to the pending parameter list.
C25_AnyRegisterAppends ==
    WroteWhileAccumulating =>
        m3d_failed = "no" /\ macro_params = ValuesOfWrites(m3d_pending)

\* C25, amended: while a macro is accumulating, a WriteReg to the argument register of
\* the macro (executing_macro + 1) is accepted and appends its value to the pending
\* parameter list; a WriteReg to any other register fails a fatal assertion and
\* appends nothing.
C25_OnlyArgumentRegisterAppends ==
    WroteWhileAccumulating =>
        LET entry == m3d_pending[1].method
            written == m3d_pending[Len(m3d_pending)]
        IN /\ executing_macro = entry
           /\ written.method = entry + 1 =>
                m3d_failed = "no" /\ macro_params = ValuesOfWrites(m3d_pending)
           /\ written.method # entry + 1 =>
                /\ m3d_failed = "ASSERT"
                /\ macro_params = ValuesOfWrites(FrontOf(m3d_pending))
                /\ m3d_trace = <<>>

\* An argument was appended, and then a write to another register was refused.
C25_Witness ==
    /\ WroteWhileAccumulating
    /\ Len(m3d_pending) = 3
    /\ m3d_pending[2].method = m3d_pending[1].method + 1
    /\ m3d_pending[3].method = MAXWELL3D_REG_INDEX("unk")
    /\ m3d_failed = "ASSERT"

\* What an Idle-state WriteReg(method, value, 0) of a register without side effect
\* leaves in the trace.
IdleWriteTrace(method, value) ==
    <<[kind |-> "reg_array", method |-> method, value |-> value],
      [kind |-> "NotifyMaxwellRegisterChanged", method |-> method]>>

\* C26: macro execution is ordered with respect to register writes: executing_macro
\* is 0 before the macro body runs, and when the WriteReg that ran it returns the
\* pending parameter list is empty, so the macro received only the values of its own
\* call; the register writes the body issues are processed as Idle-state writes.
C26_MacroRunsIdle ==
    Flushed =>
        LET call == m3d_trace[1]
        IN /\ call.executing_macro = 0
           /\ call.macro_params = <<>>
           /\ executing_macro = 0
           /\ macro_params = <<>>
           /\ call.parameters = ValuesOfWrites(m3d_pending)
           /\ m3d_failed = "no"
           /\ Len(m3d_trace) = 1 + (2 * Len(call.code))
           /\ \A k \in 1..Len(call.code) :
                /\ SubSeq(m3d_trace, 2 * k, (2 * k) + 1) =
                     IdleWriteTrace(call.code[k], call.parameters[1])
                /\ regs[call.code[k]] = call.parameters[1]

\* A second macro call, after other writes, whose body wrote a register.
C26_Witness ==
    /\ Flushed
    /\ m3d_trace[1].code # <<>>
    /\ Len(m3d_pending) = 2
    /\ m3d_writes = 2 * Len(m3d_pending)

\* The last macro call was begun on an even entry register for which no microcode has
\* been uploaded, up to now.
BegunWithoutCode ==
    /\ m3d_pending # <<>>
    /\ m3d_pending[1].method \in MacroRegs
    /\ (m3d_pending[1].method % 2) = 0
    /\ m3d_pending[1].method \notin DOMAIN uploaded_macros
\* Every write after the entry write went to the argument register.
ArgumentsOnly ==
    \A i \in 2..Len(m3d_pending) : m3d_pending[i].method = m3d_pending[1].method + 1

\* C27 as stated: when the engine is Idle and an even macro entry register is written
\* for which no microcode was uploaded, the failure is raised at the entry-register
\* write.
C27_FailsAtEntryWrite ==
    BegunWithoutCode /\ Len(m3d_pending) = 1 => m3d_failed = "ASSERT"

\* C27, amended: the uploaded microcode is looked up when the call is made, by the
\* write that has remaining_params == 0. An entry-register write with parameters
\* still to come is accepted whether or not microcode was uploaded; if none has been
\* uploaded when the last parameter is written, that write fails a fatal assertion
\* and no macro body is executed.
C27_FailsAtLastParameter ==
    /\ BegunWithoutCode /\ ArgumentsOnly =>
         /\ OnlyLastIsFinal(m3d_pending) => m3d_failed = "ASSERT" /\ m3d_trace = <<>>
         /\ (\A i \in 1..Len(m3d_pending) : m3d_pending[i].remaining_params # 0) =>
              /\ m3d_failed = "no"
              /\ executing_macro = m3d_pending[1].method
              /\ macro_params = ValuesOfWrites(m3d_pending)
    /\ Flushed => m3d_trace[1].method = m3d_pending[1].method

\* The entry write was accepted and the failure came with the last argument.
C27_Witness ==
    /\ BegunWithoutCode
    /\ Len(m3d_pending) = 2
    /\ ArgumentsOnly
    /\ OnlyLastIsFinal(m3d_pending)
    /\ m3d_failed = "ASSERT"

\* The last WriteReg wrote a register below MacroRegistersStart and no check failed.
CompletedLowWrite ==
    m3d_trace # <<>> /\ m3d_trace[1].kind = "reg_array" /\ m3d_failed = "no"
Notifications ==
    {i \in 1..Len(m3d_trace) : m3d_trace[i].kind = "NotifyMaxwellRegisterChanged"}

\* C28: for every WriteReg(method, value) with method below MacroRegistersStart that
\* completes without a failed assertion, reg_array[method] holds value before the side
\* effect of the method runs (the side effect sees the value), the rasterizer is
\* notified of the method exactly once, after the side effect, and GetRegisterValue(method)
\* then returns value.
C28_StoreEffectNotify ==
    CompletedLowWrite =>
        LET method == m3d_trace[1].method
            value == m3d_trace[1].value
        IN /\ Notifications = {Len(m3d_trace)}
           /\ m3d_trace[Len(m3d_trace)].method = method
           /\ \A i \in 2..Len(m3d_trace) : m3d_trace[i].kind # "reg_array"
           /\ GetRegisterValue(method) = value
           /\ method = MAXWELL3D_REG_INDEX("query_get") =>
                /\ QueryModeOf(value) = QueryModeWrite
                /\ Len(m3d_trace) = 3
                /\ m3d_trace[2].kind = "Write32"
           /\ method = MAXWELL3D_REG_INDEX("code_address_low") => value = 0
           /\ method = MAXWELL3D_REG_INDEX("vertex_end_gl") =>
                m3d_trace[2].kind = "AccelerateDrawBatch"

\* The query completion wrote the sequence number to backed memory between the store
\* and the notification.
C28_Witness ==
    /\ CompletedLowWrite
    /\ m3d_trace[1].method = MAXWELL3D_REG_INDEX("query_get")
    /\ Len(m3d_trace) = 3
    /\ m3d_trace[2].kind = "Write32"
    /\ m3d_trace[2].slot \notin {Unmapped, Allocated}
    /\ m3d_trace[2].value = 1

\* The const buffer the registers describe, and the GPU address of its k-th value
\* written since it was set up.
BoundBuffer == BufferAddress(regs)
BoundSize == regs[MAXWELL3D_REG_INDEX("cb_size")]
Cursor == regs[MAXWELL3D_REG_INDEX("cb_pos")]
DataAddress(k) == BoundBuffer + m3d_data.start + (SizeofU32 * (k - 1))
Backed(gpu_addr) == PageSlot(gpu_addr) \notin {Unmapped, Allocated}
\* The buffer is at a non-zero address and every value written went to a backed page.
BufferMapped ==
    BoundBuffer # 0 /\ \A k \in 1..Len(m3d_data.values) : Backed(DataAddress(k))
\* The last WriteReg was a cb_data write that failed an assertion.
DataWriteRefused ==
    /\ m3d_failed = "ASSERT"
    /\ m3d_trace # <<>>
    /\ m3d_trace[1].kind = "reg_array"
    /\ m3d_trace[1].method \in ConstBufferData

\* C29: for a const buffer of size S bound at a mapped non-zero GPU address, each
\* cb_data write stores its value at the translation of (buffer address + cb_pos) and
\* advances cb_pos by 4: after n writes the buffer holds the n values in write order,
\* cb_pos is 4n further and within S; a write issued when cb_pos + 4 > S fails an
\* assertion and stores nothing.
C29_DataWritesFillBuffer ==
    BufferMapped =>
        /\ Cursor = m3d_data.start + (SizeofU32 * Len(m3d_data.values))
        /\ m3d_data.values # <<>> => Cursor <= BoundSize
        /\ \A k \in 1..Len(m3d_data.values) :
             \E a \in DOMAIN memory :
                 /\ memory[a] = m3d_data.values[k]
                 /\ DataAddress(k) \in Range(CpuToGpuAddress(a))
        /\ DataWriteRefused /\ PageSlot(BoundBuffer + Cursor) # Unmapped =>
             /\ Cursor + SizeofU32 > BoundSize
             /\ Accesses = {}

\* Two values fill a buffer of two words and the third write is refused.
C29_Witness ==
    /\ BufferMapped
    /\ DataWriteRefused
    /\ m3d_data.start = 0
    /\ Len(m3d_data.values) = 2
    /\ m3d_data.values[1] # m3d_data.values[2]
    /\ BoundSize = 2 * SizeofU32

\* This step is a completed WriteReg of the bind register of the stage, made with a
\* value whose index field is the slot.
BindStep(stage, slot) ==
    /\ m3d_writes' = m3d_writes + 1
    /\ m3d_failed' = "no"
    /\ m3d_trace' # <<>>
    /\ m3d_trace'[1].kind = "reg_array"
    /\ m3d_trace'[1].method = MAXWELL3D_REG_INDEX("cb_bind0") + stage
    /\ BindIndex(m3d_trace'[1].value) = slot
\* The descriptor a bind written with raw_config makes of the registers.
BoundDescriptor(raw_config, r) ==
    [enabled |-> (raw_config % 2) = 1, index |-> BindIndex(raw_config),
     address |-> BufferAddress(r), size |-> r[MAXWELL3D_REG_INDEX("cb_size")]]

\* C30: a write to the bind register of shader stage s copies the current const
\* buffer address and size into the descriptor of stage s at the bind index, with
\* enabled equal to the valid bit, and leaves the descriptors of every other stage and
\* slot unchanged; no other write, and so no later write to the address or size
\* registers, changes a descriptor.
C30_BindCopiesIntoOneDescriptor ==
    [][\A stage \in ShaderStages, slot \in ConstBufferSlots :
          /\ BindStep(stage, slot) =>
               shader_stages'[stage][slot] = BoundDescriptor(m3d_trace'[1].value, regs')
          /\ ~BindStep(stage, slot) =>
               shader_stages'[stage][slot] = shader_stages[stage][slot]]_vars

\* A descriptor bound at slot 1 keeps the address it was bound with after the address
\* register was written again.
C30_Witness ==
    \E stage \in ShaderStages :
        /\ shader_stages[stage][1].enabled
        /\ shader_stages[stage][1].index = 1
        /\ shader_stages[stage][1].address # 0
        /\ shader_stages[stage][1].address # BoundBuffer
        /\ shader_stages[stage][0] = [enabled |-> FALSE, index |-> 0, address |-> 0, size |-> 0]

\* The last WriteReg wrote the draw trigger register, and the batch draws it made.
DrawTriggered ==
    /\ m3d_trace # <<>>
    /\ m3d_trace[1].kind = "reg_array"
    /\ m3d_trace[1].method = MAXWELL3D_REG_INDEX("vertex_end_gl")
BatchDraws == {i \in 1..Len(m3d_trace) : m3d_trace[i].kind = "AccelerateDrawBatch"}

\* C31: a write to the draw trigger register with the indexed count and the vertex
\* count both nonzero fails a fatal assertion and does not invoke the rasterizer's
\* batch draw; otherwise the batch draw is invoked exactly once, with is_indexed true
\* if and only if the indexed count is nonzero.
C31_DrawDispatch ==
    DrawTriggered =>
        LET index_count == regs[MAXWELL3D_REG_INDEX("index_array_count")]
            vertex_count == regs[MAXWELL3D_REG_INDEX("vertex_buffer_count")]
        IN IF index_count # 0 /\ vertex_count # 0
           THEN m3d_failed = "ASSERT" /\ BatchDraws = {}
           ELSE /\ m3d_failed = "no"
                /\ BatchDraws = {2}
                /\ m3d_trace[2].is_indexed = (index_count # 0)

\* An indexed draw was dispatched.
C31_Witness ==
    /\ DrawTriggered
    /\ BatchDraws = {2}
    /\ m3d_trace[2].is_indexed

C31_WitnessRefused == DrawTriggered /\ m3d_failed = "ASSERT"

C31_WitnessEmpty ==
    /\ DrawTriggered
    /\ BatchDraws = {2}
    /\ regs[MAXWELL3D_REG_INDEX("index_array_count")] = 0
    /\ regs[MAXWELL3D_REG_INDEX("vertex_buffer_count")] = 0

\* The last WriteReg wrote the query_get register.
QueryTriggered ==
    /\ m3d_trace # <<>>
    /\ m3d_trace[1].kind = "reg_array"
    /\ m3d_trace[1].method = MAXWELL3D_REG_INDEX("query_get")
\* The CPU addresses the mapped regions give for a GPU address.
BackingOf(gpu_addr) ==
    {region.cpu_addr + (gpu_addr - region.gpu_addr) :
       region \in {r \in Range(mapped_regions) :
                     gpu_addr >= r.gpu_addr /\ gpu_addr < r.gpu_addr + r.size}}

\* C32: a write to the query_get register in Write mode writes the current query
\* sequence value to the translation of the query address and nothing else in guest
\* memory; in every other query mode the outcome is an unimplemented-feature failure,
\* not an assertion failure, and no guest memory is written.
C32_QueryCompletion ==
    QueryTriggered =>
        IF QueryModeOf(m3d_trace[1].value) = QueryModeWrite
        THEN \A access \in Accesses :
                 /\ access.value = regs[MAXWELL3D_REG_INDEX("query_sequence")]
                 /\ access.gpu_addr = QueryAddress(regs)
                 /\ access.address \in BackingOf(access.gpu_addr)
        ELSE m3d_failed = "UNIMPLEMENTED" /\ Accesses = {}

\* The two ways the code departs from it.
C32_WildWrite ==
    /\ QueryTriggered
    /\ QueryModeOf(m3d_trace[1].value) = QueryModeWrite
    /\ m3d_failed = "no"
    /\ \E access \in Accesses : access.address \notin BackingOf(access.gpu_addr)

C32_AssertBeforeMode ==
    /\ QueryTriggered
    /\ QueryModeOf(m3d_trace[1].value) # QueryModeWrite
    /\ m3d_failed = "ASSERT"

\* The last WriteReg completed a query in Write mode through a backed page.
QueryWritten ==
    /\ QueryTriggered
    /\ m3d_failed = "no"
    /\ Len(m3d_trace) = 3
    /\ m3d_trace[2].kind = "Write32"

\* C33 as stated: the values written to memory by successive Write-mode query
\* completions never decrease.
C33_SequenceNeverDecreases ==
    \A i, j \in 1..Len(m3d_queries) : i < j => m3d_queries[i] <= m3d_queries[j]

\* C33, amended: a Write-mode query completion writes the value the query_sequence
\* register holds when query_get is written, which is the value the command stream
\* last wrote to that register (0 if it wrote none); the engine keeps no sequence of
\* its own, so the values written decrease when the stream writes a smaller one.
C33_SequenceIsTheRegister ==
    QueryWritten =>
        /\ m3d_trace[2].value = regs[MAXWELL3D_REG_INDEX("query_sequence")]
        /\ m3d_queries # <<>>
        /\ m3d_queries[Len(m3d_queries)] = regs[MAXWELL3D_REG_INDEX("query_sequence")]

\* Two completions through a backed page, the second with the smaller value.
C33_Witness ==
    /\ QueryWritten
    /\ Backed(m3d_trace[2].gpu_addr)
    /\ Len(m3d_queries) = 2
    /\ m3d_queries[1] > m3d_queries[2]

(***************************************************************************)
(* Claims about NVFlinger::GetBufferQueue.                                 *)
(***************************************************************************)
\* C34: GetBufferQueue ignores its lookup: every object it has returned is a fresh
\* placeholder with id 0 and layer 0, different from every registered queue and from
\* every object returned before, whatever id was asked for; so no Compose flips a
\* buffer, since the buffers queued through the returned objects are never in the
\* queue of a layer.
C34_GetBufferQueueReturnsPlaceholder ==
    /\ \A i \in 1..Len(nvf_returned) :
         LET queue == nvf_returned[i].queue
         IN /\ queue \notin Range(buffer_queues)
            /\ nvf_heap[queue].id = 0
            /\ nvf_heap[queue].layer_id = 0
            /\ \A j \in 1..(i - 1) : nvf_returned[j].queue # queue
    /\ \A q \in Range(buffer_queues) : nvf_heap[q].queue = <<>>
    /\ \A c \in 1..Len(nvf_flips) : nvf_flips[c].flipped = <<>>

\* A registered queue was asked for by its id, a buffer was queued through the object
\* returned, and a Compose ran while it was queued.
C34_Witness ==
    /\ \E i \in 1..Len(nvf_returned) : FindQueue(nvf_returned[i].id) # {}
    /\ \E c \in 1..Len(nvf_flips) : nvf_flips[c].queued # {}

(***************************************************************************)
(* Claims about the reference a KScopedAutoObject owns.                    *)
(***************************************************************************)
\* C35: destroying a wrapper that was constructed from a raw pointer never runs
\* Close on a count of 0: the destructor of a non-null wrapper never ends in the
\* assertion of Close, whatever the count of the object was at construction.
C35_DestructorNeverUnderflows ==
    ~(aborted /\ last.op = "Destruct" /\ last.o # nullptr)

(***************************************************************************)
(* Claims about the life of a GPU page.                                    *)
(***************************************************************************)
\* A page slot holds a concrete base.
IsBacked(slot) == slot \notin {Unmapped, Allocated}

\* What a call may do to a page slot: leave it, allocate or back an Unmapped page,
\* back an Allocated page.
MovesForward(old, new) ==
    \/ new = old
    \/ old = Unmapped /\ (new = Allocated \/ IsBacked(new))
    \/ old = Allocated /\ IsBacked(new)

\* C36: a call of AllocateSpace or MapBufferEx (either overload) that completes
\* without a failed assertion moves every page only forward: Unmapped to Allocated,
\* Unmapped to backed, Allocated to backed; no page returns to Unmapped or to
\* Allocated, and a concrete base is never overwritten.
C36_PagesOnlyMoveForward ==
    [][~mm_failed' =>
         \A block \in DOMAIN page_table : \A index \in DOMAIN page_table[block] :
             MovesForward(page_table[block][index], page_table'[block][index])]_vars

\* A page was allocated at an address by one call and backed there by the next.
C36_Witness ==
    /\ ~mm_failed
    /\ \E i \in 1..Len(mm_ranges) : \E j \in (i + 1)..Len(mm_ranges) :
         /\ mm_ranges[i].kind \in {"AllocateSpace", "AllocateSpaceAt"}
         /\ mm_ranges[j].kind = "MapBufferExAt"
         /\ mm_ranges[j].base = mm_ranges[i].base
         /\ IsBacked(PageSlot(mm_ranges[j].base))

(***************************************************************************)
(* Claims about writes at or above the macro threshold.                    *)
(***************************************************************************)
\* The registers the macro body run by the last WriteReg wrote: none if no macro ran.
BodyRegisters(trace) ==
    IF trace # <<>> /\ trace[1].kind = "Execute" THEN Range(trace[1].code) ELSE {}

\* What a completed WriteReg of a method at or above MacroRegistersStart leaves:
\* apart from the writes of the macro body it ran, GetRegisterValue returns for every
\* method what it returned before, the rasterizer is not notified, and shader stages
\* and guest memory are as before.
MacroWriteEffect ==
    LET body == BodyRegisters(m3d_trace')
    IN /\ \A r \in LowRegs \ body : GetRegisterValue(r)' = GetRegisterValue(r)
       /\ \A i \in 1..Len(m3d_trace') :
            m3d_trace'[i].kind \in {"reg_array", "NotifyMaxwellRegisterChanged"} =>
                m3d_trace'[i].method \in body
       /\ shader_stages' = shader_stages
       /\ memory' = memory
       /\ uploaded_macros' = uploaded_macros
       /\ body = {} => regs' = regs

\* The step is a WriteReg of a method at or above MacroRegistersStart that completes:
\* a write made while a macro accumulates its parameters, a write that begins a
\* macro call, or a write that is a whole macro call.
CompletedMacroWrite ==
    /\ m3d_writes' = m3d_writes + 1
    /\ m3d_failed' = "no"
    /\ m3d_pending' # <<>>
    /\ m3d_pending'[Len(m3d_pending')].method >= MacroRegistersStart
    /\ \/ executing_macro # 0
       \/ executing_macro' # 0
       \/ m3d_trace' # <<>> /\ m3d_trace'[1].kind = "Execute"

\* C37: a WriteReg whose method is at or above the macro threshold and that completes
\* leaves the register file unchanged and does not notify the rasterizer, apart from
\* the effects of the macro body it may have run: only executing_macro and
\* macro_params change.
C37_MacroWriteKeepsRegisters ==
    [][CompletedMacroWrite => MacroWriteEffect]_vars

\* A macro write that is not the last of its call has changed the macro state only.
C37_Witness ==
    /\ m3d_failed = "no"
    /\ executing_macro # 0
    /\ Len(macro_params) = 2
    /\ m3d_trace = <<>>
    /\ regs = [r \in LowRegs |-> 0]

\* A macro write ran a body that wrote a register.
C37_WitnessBody ==
    /\ m3d_failed = "no"
    /\ executing_macro = 0
    /\ BodyRegisters(m3d_trace) # {}
    /\ \E r \in BodyRegisters(m3d_trace) : regs[r] # 0

(***************************************************************************)
(* Claims about the signal of a Common::Event.                             *)
(***************************************************************************)
\* Thread t ends its Set, its Reset, or returns from its Wait / WaitUntil in this step.
EndsCall(t, places) == pc[t] \in places /\ pc'[t] = "idle"

\* C38: the signals of an Event are not counted. A Set on an event that is already
\* set changes nothing; a Wait that finds the event set returns without blocking and
\* clears it, so that one Wait returns for any number of Sets and the next one blocks;
\* a Wait that finds it clear blocks, and the event becomes set only by a Set; a set
\* event stays set until a Wait takes it or a Reset clears it.
C38_SignalsNotCounted ==
    /\ [][\A t \in Threads :
            /\ (EndsCall(t, {"set"}) /\ is_set) =>
                   UNCHANGED <<is_set, ev_notified, ev_returns>>
            /\ (pc[t] \in {"wait_check", "until_check"} /\ pc'[t] # pc[t]) =>
                   IF is_set THEN pc'[t] = "idle" /\ ~is_set'
                   ELSE pc'[t] \in {"wait_blocked", "until_blocked"} /\ ~is_set']_vars
    /\ [][(~is_set /\ is_set') => \E t \in Threads : EndsCall(t, {"set"})]_vars
    /\ [][(is_set /\ ~is_set') =>
            \E t \in Threads :
                EndsCall(t, {"reset", "wait_check", "until_check", "until_final"})]_vars
    /\ [](\A i \in 1..Len(ev_returns) : ev_returns[i] <= 1)

\* A Set is running on an event that an earlier Set has set and that no thread waits
\* for.
C38_Witness ==
    /\ is_set
    /\ \E t \in Threads : pc[t] = "set"
    /\ Waiters = {}
    /\ ev_returns # <<>> /\ ev_returns[Len(ev_returns)] = 0

(***************************************************************************)
(* Claims about Common::Barrier.                                           *)
(***************************************************************************)
\* The positions in the order of arrival of the calls of Sync that thread t made.
ArrivalsOf(t) == {k \in 1..Len(b_arrived) : b_arrived[k] = t}

\* The generation a call of Sync belongs to, by its position in the order of arrival,
\* and the number of arrivals that completes that generation.
GenerationOf(k) == (k - 1) \div b_count
CompleteAt(k) == (GenerationOf(k) + 1) * b_count

\* The arrivals of thread t from which Sync has returned: its first b_returns[t] ones.
ReturnedArrivals(t) ==
    {k \in ArrivalsOf(t) : Cardinality({j \in ArrivalsOf(t) : j <= k}) <= b_returns[t]}

\* C39: no thread returns from Sync before count threads have called Sync in its
\* generation; the count-th arrival sets waiting back to 0 and advances generation by
\* exactly one, and nothing else changes generation, so the barrier is reusable; a
\* thread is released by the arrivals of its own generation only, and once its
\* generation is complete every thread of it returns, whatever the threads of the
\* next generation do.
C39_BarrierReleasesByGeneration ==
    /\ [](/\ \A t \in SyncThreads : \A k \in ReturnedArrivals(t) :
                Len(b_arrived) >= CompleteAt(k)
          /\ generation = Len(b_arrived) \div b_count
          /\ waiting = Len(b_arrived) % b_count
          /\ \A t \in InSync : current_generation[t] <= generation)
    /\ [][/\ generation' \in {generation, generation + 1}
          /\ generation' = generation + 1 <=>
                 (Len(b_arrived') = Len(b_arrived) + 1 /\ waiting + 1 = b_count)
          /\ generation' = generation + 1 => waiting' = 0]_vars
    /\ \A t \in SyncThreads :
           (t \in InSync /\ current_generation[t] # generation) ~> (t \notin InSync)

\* The barrier has been used twice: every thread of the first generation has returned
\* and a second generation is complete, with more than one thread in each.
C39_Witness ==
    /\ b_count > 1
    /\ generation = 2
    /\ waiting = 0
    /\ \A t \in SyncThreads : pc[t] = "idle"
    /\ \E t \in SyncThreads : b_returns[t] = 2

\* A thread of the next generation waits while a thread of the previous one has not
\* yet left Sync.
C39_WitnessOverlap ==
    \E t \in InSync, u \in InSync :
        /\ current_generation[t] # generation
        /\ current_generation[u] = generation

(***************************************************************************)
(* Claims about the size of the slab region.                               *)
(***************************************************************************)
\* ADD_SLAB_SIZE(NAME, COUNT): size += alignof(NAME);
\* size += Common::AlignUp(sizeof(NAME) * (COUNT), alignof(void*));
AddSlabSize_NoSlack(type) == AlignUp(slab_sizeof[type] * SLAB_COUNT(type), PointerAlign)

AddSlabSize(type) ==
    slab_alignof[type] + AlignUp(slab_sizeof[type] * SLAB_COUNT(type), PointerAlign)

\* CalculateTotalSlabHeapSize()
CalculateTotalSlabHeapSize ==
    SumSeq([k \in 1..KSlabType_Count |-> AddSlabSize(k - 1)]) + CalculateSlabHeapGapSize

\* C40: for every shuffle, every draw of the gaps and every start of the slab region,
\* the address InitializeSlabHeaps has reached, after the last slab and after every
\* slab before it, is at most the region start plus CalculateTotalSlabHeapSize().
C40_SlabRegionLargeEnough ==
    /\ address <= slab_region + CalculateTotalSlabHeapSize
    /\ \A i \in 1..Len(slab_end) : slab_end[i] <= slab_region + CalculateTotalSlabHeapSize

\* All slabs are placed from a region start that is not aligned, in a shuffled order,
\* with the whole gap budget used and a slab start that had to be aligned.
C40_Witness ==
    /\ slab_pc = "done" /\ Len(slab_start) = KSlabType_Count
    /\ address = slab_end[KSlabType_Count]
    /\ slab_region % PointerAlign # 0
    /\ SumSeq(slab_pad) = CalculateSlabHeapGapSize
    /\ slab_start[1] > slab_region + slab_pad[1]
    /\ slab_types # [k \in 1..KSlabType_Count |-> k - 1]

====
